---- MODULE Spec2Model ----
(***************************************************************************)
(* The content-addressed sharded storage engine of nuln/sbox: the engine   *)
(* facade, the chunking writer and the stitching reader, over two          *)
(* filesystems (a manifest store per engine, one shared shard store).      *)
(*                                                                         *)
(* Strings are sequences of atoms ("a", ".json", ...), paths are sequences *)
(* of strings, file contents are sequences of bytes.  SHA-256 is modelled  *)
(* as a collision-free digest of fixed length.  Modification times are not *)
(* modelled.                                                               *)
(***************************************************************************)
EXTENDS Integers, Sequences, FiniteSets, TLC

\* ---------------------------------------------------------------- bounds

\* chunkSize handed to New (positive; the default is 4 MiB)
ChunkSize == 2
\* the longest content of the round-trip specifications
MaxLen == 7
\* the most bytes one writer of the general specification is handed
MaxFile == 3

Byte == {0, 1}
Engines == {"A", "B"}

\* ------------------------------------------------------------- sequences

Min(a, b) == IF a < b THEN a ELSE b

Take(s, n) == SubSeq(s, 1, Min(n, Len(s)))

Drop(s, n) == SubSeq(s, n + 1, Len(s))

RECURSIVE Sum(_)
Sum(s) == IF s = <<>> THEN 0 ELSE Head(s) + Sum(Tail(s))

RECURSIVE SeqsOfLen(_, _)
SeqsOfLen(S, n) ==
  IF n = 0 THEN {<<>>}
  ELSE {Append(s, x) : s \in SeqsOfLen(S, n - 1), x \in S}

SeqsUpTo(S, n) == UNION {SeqsOfLen(S, k) : k \in 0..n}

IsPrefix(s, t) == Len(s) <= Len(t) /\ SubSeq(t, 1, Len(s)) = s

\* ----------------------------------------------------------------- paths

Slash == <<"/">>
Dot == <<".">>
DotDot == <<"..">>
Json == ".json"
ManifestsDir == <<"manifests">>

\* filepath.Clean on the elements of a path: "." elements vanish, ".."
\* removes the element before it; at the start of a rooted path ".." vanishes,
\* at the start of a relative path it stays.
RECURSIVE CleanElems(_, _, _)
CleanElems(rest, out, rooted) ==
  IF rest = <<>> THEN out
  ELSE LET c == Head(rest) IN
    IF c = Dot THEN CleanElems(Tail(rest), out, rooted)
    ELSE IF c = DotDot THEN
      IF out # <<>> /\ out[Len(out)] # DotDot
        THEN CleanElems(Tail(rest), SubSeq(out, 1, Len(out) - 1), rooted)
      ELSE IF rooted THEN CleanElems(Tail(rest), out, rooted)
      ELSE CleanElems(Tail(rest), Append(out, c), rooted)
    ELSE CleanElems(Tail(rest), Append(out, c), rooted)

\* A path as the caller writes it is a sequence of elements; a leading Slash
\* element makes it absolute.
IsAbs(p) == p # <<>> /\ Head(p) = Slash

\* cleanPath: Clean, then the leading slash is trimmed; "" and "." are the root.
cleanPath(p) ==
  IF IsAbs(p) THEN CleanElems(Tail(p), <<>>, TRUE)
  ELSE CleanElems(p, <<>>, FALSE)

\* filepath.Join of relative elements: concatenation, then Clean.
Join(a, b) == CleanElems(a \o b, <<>>, FALSE)

\* filepath.Dir of a cleaned relative path (the root for a single element).
Dir(p) == IF p = <<>> THEN <<>> ELSE SubSeq(p, 1, Len(p) - 1)

\* filepath.Base of a cleaned path.
Base(p) == IF p = <<>> THEN Dot ELSE p[Len(p)]

\* p + ".json": the suffix is added to the last element.
AddJson(p) == [p EXCEPT ![Len(p)] = Append(@, Json)]

HasSuffixJson(name) == name # <<>> /\ name[Len(name)] = Json

TrimSuffixJson(name) ==
  IF HasSuffixJson(name) THEN SubSeq(name, 1, Len(name) - 1) ELSE name

manifestPath(path) ==
  LET p == cleanPath(path) IN
  IF p = <<>> THEN <<ManifestsDir>> ELSE Join(<<ManifestsDir>>, AddJson(p))

manifestDirPath(path) ==
  LET p == cleanPath(path) IN
  IF p = <<>> THEN <<ManifestsDir>> ELSE Join(<<ManifestsDir>>, p)

\* The order of the bytes "." < "a" < "b" < "m" that strings are made of.
AtomRank(x) ==
  CASE x = Json -> 0
    [] x = "a" -> 1
    [] x = "b" -> 2
    [] OTHER -> 3

\* a < b as strings, byte by byte.
RECURSIVE StrLess(_, _)
StrLess(a, b) ==
  IF a = <<>> THEN b # <<>>
  ELSE IF b = <<>> THEN FALSE
  ELSE IF Head(a) = Head(b) THEN StrLess(Tail(a), Tail(b))
  ELSE AtomRank(Head(a)) < AtomRank(Head(b))

\* sort.Slice by name, as afero.ReadDir returns the entries of a directory.
RECURSIVE SortNames(_)
SortNames(S) ==
  IF S = {} THEN <<>>
  ELSE LET m == CHOOSE x \in S : \A y \in S \ {x} : ~StrLess(y, x) IN
       <<m>> \o SortNames(S \ {m})

\* ---------------------------------------------------------------- hashes

\* Length of a digest in hex digits (at least the 6 that HashPath splits off).
HexLen == ChunkSize + 6

\* A digest that depends on the length of its input alone.
Sha256HexOfLen(b) == [i \in 1..HexLen |-> IF i = 1 THEN Len(b) ELSE 0]

\* sha256 + hex.EncodeToString: a string that is different for different
\* inputs (the length, the bytes, zero padding), of the fixed length HexLen
\* for every input of at most a chunk.
Sha256Hex(b) ==
  [i \in 1..(IF HexLen > Len(b) THEN HexLen ELSE Len(b) + 1) |->
     IF i = 1 THEN Len(b) ELSE IF i - 1 <= Len(b) THEN b[i - 1] ELSE 0]

\* A layout that names the shard by the first directory level alone.
HashPathPrefix(hash) == <<SubSeq(hash, 1, 2)>>

\* HashPath: three two-character directory levels, then the whole hash.
HashPath(hash) ==
  IF Len(hash) < 6 THEN <<hash>>
  ELSE <<SubSeq(hash, 1, 2), SubSeq(hash, 3, 4), SubSeq(hash, 5, 6), hash>>

shardPath(hash) == HashPath(hash)

\* ------------------------------------------------------------ filesystem
\* An afero filesystem: the set of directories and the files with their data.
\* The root <<>> is always a directory.

EmptyFs == [dirs |-> {<<>>}, files |-> <<>>]

Prefixes(p) == {SubSeq(p, 1, k) : k \in 0..Len(p)}

FsIsDir(fs, p) == p \in fs.dirs

FsIsFile(fs, p) == p \in DOMAIN fs.files

\* afero.Exists
FsExists(fs, p) == FsIsDir(fs, p) \/ FsIsFile(fs, p)

\* Fs.MkdirAll succeeds unless an element of the path is a file.
FsMkdirAllOk(fs, p) == \A q \in Prefixes(p) : ~FsIsFile(fs, q)

FsMkdirAll(fs, p) == [fs EXCEPT !.dirs = @ \cup Prefixes(p)]

\* afero.WriteFile opens with O_CREATE|O_TRUNC: the parent must be a directory
\* and the name must not be one.
FsWriteFileOk(fs, p) == p # <<>> /\ FsIsDir(fs, Dir(p)) /\ ~FsIsDir(fs, p)

\* A WriteFile that leaves a file that exists as it is.
FsWriteFileKeep(fs, p, data) ==
  [fs EXCEPT !.files = @ @@ (p :> data)]

FsWriteFile(fs, p, data) ==
  [fs EXCEPT !.files = (p :> data) @@ @]

FsDropFiles(files, gone) == [q \in DOMAIN files \ gone |-> files[q]]

\* Fs.Remove of a file.
FsRemoveFile(fs, p) == [fs EXCEPT !.files = FsDropFiles(@, {p})]

Under(p, q) == IsPrefix(p, q)

\* Fs.RemoveAll: the subtree at p, without an error when nothing is there.
FsRemoveAll(fs, p) ==
  [dirs |-> {d \in fs.dirs : ~Under(p, d)} \cup {<<>>},
   files |-> FsDropFiles(fs.files, {f \in DOMAIN fs.files : Under(p, f)})]

Rebase(q, old, new) == new \o Drop(q, Len(old))

\* Fs.Rename of a file onto a name that is no directory: the data moves and
\* replaces what the new name held.
FsRenameFile(fs, old, new) ==
  [fs EXCEPT !.files = (new :> @[old]) @@ FsDropFiles(@, {old, new})]

\* Fs.Rename of a directory: the whole subtree moves.
FsRenameDir(fs, old, new) ==
  LET movedD == {d \in fs.dirs : Under(old, d)}
      movedF == {f \in DOMAIN fs.files : Under(old, f)}
      keptF == FsDropFiles(fs.files, movedF)
  IN [dirs |-> (fs.dirs \ movedD) \cup {Rebase(d, old, new) : d \in movedD},
      files |-> [q \in {Rebase(f, old, new) : f \in movedF} |->
                   fs.files[Rebase(q, new, old)]] @@ keptF]

\* -------------------------------------------------------- manifest codec

\* sbox.Manifest (without ModTime)
Manifest(chunks, chunkSizes, size) ==
  [chunks |-> chunks, chunkSizes |-> chunkSizes, size |-> size]

\* json.Marshal: chunkSizes carries omitempty, so an empty list is left out.
Marshal(m) ==
  [valid |-> TRUE, chunks |-> m.chunks, hasSizes |-> Len(m.chunkSizes) > 0,
   chunkSizes |-> m.chunkSizes, size |-> m.size]

\* What a manifest write that stopped part-way leaves: no complete JSON value.
PartialJson ==
  [valid |-> FALSE, chunks |-> <<>>, hasSizes |-> FALSE, chunkSizes |-> <<>>,
   size |-> 0]

\* json.Unmarshal succeeds on a complete document only.
UnmarshalOk(data) == data.valid

Unmarshal(data) ==
  Manifest(data.chunks, IF data.hasSizes THEN data.chunkSizes ELSE <<>>,
           data.size)

\* ----------------------------------------------------------------- state

\* writers ever opened, and readers
MaxWriters == 2
MaxReaders == 1
WriterIds == 1..MaxWriters
ReaderIds == 1..MaxReaders

VARIABLES
  manifestFs,  \* engine -> its manifest filesystem
  shardsFs,    \* the shard filesystem all engines share
  writers,     \* writer id -> shardedWriter
  readers,     \* reader id -> shardedReader
  ret,         \* what the last call returned
  registry,    \* the driver registry and the goroutines that call it
  bufferPool   \* engine -> the buffers that lie in its sync.Pool

vars == <<manifestFs, shardsFs, writers, readers, ret, registry, bufferPool>>

\* The driver registry of the package: the map factories (name -> factory,
\* NoFactory for a name that is not in the map), the goroutine that holds mu
\* for writing (0 for none) and, for each goroutine, where it is in Register
\* (pc), the arguments of its call (arg) and the number of calls it has made.
\* took lists the assignments to the map in their order (history).
DriverNames == {"sharded", "local"}
Goroutines == {1, 2}
MaxCalls == 2
NoFactory == <<>>

RegistryInit ==
  [factories |-> [n \in DriverNames |-> NoFactory],
   mu |-> 0,
   pc |-> [g \in Goroutines |-> "idle"],
   arg |-> [g \in Goroutines |-> [name |-> "sharded", factory |-> NoFactory]],
   calls |-> [g \in Goroutines |-> 0],
   took |-> <<>>]

\* What Stat and Open + io.ReadAll of a path returned (history).
NoView ==
  [stat |-> [err |-> "notexist", name |-> <<>>, size |-> 0, isDir |-> FALSE],
   content |-> [data |-> <<>>, end |-> "notexist"]]

\* An id no writer was made for yet.  Not fields of the code, but history:
\* accepted is the bytes of the Write calls that returned without error, werr
\* is whether a Write returned an error, pre is what Stat and Open of the path
\* returned when the writer was opened.  ctx is the context.Context that was
\* handed to OpenFile: "live", or "done" once it is cancelled.  pc is where
\* the writer is inside flush, for the steps of flush taken one by one.  pbuf
\* is the array behind the buffer while the writer holds one of the pool: all
\* of its ChunkSize bytes, those beyond the length of the buffer included.
FreeWriter ==
  [st |-> "free", engine |-> "A", path |-> <<>>, hashes |-> <<>>,
   chunkSizes |-> <<>>, size |-> 0, buffer |-> <<>>, flag |-> "none",
   accepted |-> <<>>, werr |-> FALSE, pre |-> NoView, ctx |-> "live",
   pc |-> "idle", pbuf |-> <<>>]

\* got is the bytes returned since the last Seek, from is the offset that Seek
\* asked for, eof says that the last Read reported end-of-stream, snap is what
\* io.ReadAll of the file gave when the reader was opened (history).
FreeReader ==
  [st |-> "free", engine |-> "A", path |-> <<>>,
   manifest |-> Manifest(<<>>, <<>>, 0), offset |-> 0,
   got |-> <<>>, from |-> 0, eof |-> FALSE,
   snap |-> [data |-> <<>>, end |-> "EOF"]]

Ret(op, id, err) == [op |-> op, id |-> id, err |-> err]

Init ==
  /\ manifestFs = [e \in Engines |-> EmptyFs]
  /\ shardsFs = EmptyFs
  /\ writers = [w \in WriterIds |-> FreeWriter]
  /\ readers = [r \in ReaderIds |-> FreeReader]
  /\ ret = Ret("init", 0, "nil")
  /\ registry = RegistryInit
  /\ bufferPool = [e \in Engines |-> {}]

\* ---------------------------------------------------------------- faults
\* A filesystem call may fail.  kind names the call that fails: "mkdir"
\* (MkdirAll), "open" (WriteFile fails before it truncates), "short" (WriteFile
\* stops after cut bytes), "close" (WriteFile fails after the last byte),
\* "read" (ReadFile).  at counts the flushes of one Write up to the failing one.

NoFault == [at |-> 0, kind |-> "ok", cut |-> 0]

Fault(at, kind, cut) == [at |-> at, kind |-> kind, cut |-> cut]

\* ---------------------------------------------------------------- writer

\* A flush that drops a chunk whose shard file is there already.
flushNoList(w, sfs, fault) ==
  IF Len(w.buffer) = 0 THEN [w |-> w, sfs |-> sfs, err |-> "nil"]
  ELSE
    LET sp == shardPath(Sha256Hex(w.buffer))
        sfs1 == FsMkdirAll(sfs, Dir(sp))
    IN
    IF FsExists(sfs1, sp)
      THEN [w |-> [w EXCEPT !.buffer = <<>>], sfs |-> sfs1, err |-> "nil"]
    ELSE [w |-> [w EXCEPT !.hashes = Append(@, Sha256Hex(w.buffer)),
                          !.chunkSizes = Append(@, Len(w.buffer)),
                          !.buffer = <<>>],
          sfs |-> FsWriteFile(sfs1, sp, w.buffer), err |-> "nil"]

\* A flush that records the buffer even when it is empty.
flushEmpty(w, sfs, fault) ==
  LET sp == shardPath(Sha256Hex(w.buffer)) IN
  [w |-> [w EXCEPT !.hashes = Append(@, Sha256Hex(w.buffer)),
                   !.chunkSizes = Append(@, Len(w.buffer)),
                   !.buffer = <<>>],
   sfs |-> FsWriteFile(FsMkdirAll(sfs, Dir(sp)), sp, w.buffer),
   err |-> "nil"]

\* A flush that lists the chunk without storing its shard.
flushUnstored(w, sfs, fault) ==
  IF Len(w.buffer) = 0 THEN [w |-> w, sfs |-> sfs, err |-> "nil"]
  ELSE [w |-> [w EXCEPT !.hashes = Append(@, Sha256Hex(w.buffer)),
                        !.chunkSizes = Append(@, Len(w.buffer)),
                        !.buffer = <<>>],
        sfs |-> sfs, err |-> "nil"]

\* A flush that writes the shard file whether or not it exists.
flushAlways(w, sfs, fault) ==
  IF Len(w.buffer) = 0 THEN [w |-> w, sfs |-> sfs, err |-> "nil"]
  ELSE
    LET hashStr == Sha256Hex(w.buffer)
        sp == shardPath(hashStr)
        sfs1 == FsMkdirAll(sfs, Dir(sp))
    IN
    IF fault.kind \in {"mkdir", "open"}
      THEN [w |-> w, sfs |-> sfs, err |-> "io"]
    ELSE IF fault.kind = "short"
      THEN [w |-> w,
            sfs |-> FsWriteFile(sfs1, sp,
                      Take(w.buffer, Min(fault.cut, Len(w.buffer) - 1))),
            err |-> "io"]
    ELSE [w |-> [w EXCEPT !.hashes = Append(@, hashStr),
                          !.chunkSizes = Append(@, Len(w.buffer)),
                          !.buffer = <<>>],
          sfs |-> FsWriteFile(sfs1, sp, w.buffer),
          err |-> IF fault.kind = "close" THEN "io" ELSE "nil"]

\* shardedWriter.flush; fault is the failure of this flush, if any.
flush(w, sfs, fault) ==
  IF Len(w.buffer) = 0 THEN [w |-> w, sfs |-> sfs, err |-> "nil"]
  ELSE
    LET hashStr == Sha256Hex(w.buffer)
        sp == shardPath(hashStr)
    IN
    IF fault.kind = "mkdir" \/ ~FsMkdirAllOk(sfs, Dir(sp))
      THEN [w |-> w, sfs |-> sfs, err |-> "io"]
    ELSE
      LET sfs1 == FsMkdirAll(sfs, Dir(sp))
          done == [w EXCEPT !.hashes = Append(@, hashStr),
                            !.chunkSizes = Append(@, Len(w.buffer)),
                            !.buffer = <<>>]
      IN
      IF FsExists(sfs1, sp) THEN [w |-> done, sfs |-> sfs1, err |-> "nil"]
      ELSE IF fault.kind = "open" \/ ~FsWriteFileOk(sfs1, sp)
        THEN [w |-> w, sfs |-> sfs1, err |-> "io"]
      ELSE IF fault.kind = "short"
        THEN [w |-> w,
              sfs |-> FsWriteFile(sfs1, sp,
                        Take(w.buffer, Min(fault.cut, Len(w.buffer) - 1))),
              err |-> "io"]
      ELSE IF fault.kind = "close"
        THEN [w |-> w, sfs |-> FsWriteFile(sfs1, sp, w.buffer), err |-> "io"]
      ELSE [w |-> done, sfs |-> FsWriteFile(sfs1, sp, w.buffer), err |-> "nil"]

\* The loop of shardedWriter.Write over the bytes p that are left.
RECURSIVE WriteLoop(_, _, _, _)
WriteLoop(w, sfs, p, fault) ==
  IF Len(p) = 0 THEN [w |-> w, sfs |-> sfs, err |-> "nil"]
  ELSE
    LET space == ChunkSize - Len(w.buffer) IN
    IF space > Len(p)
      THEN WriteLoop([w EXCEPT !.buffer = @ \o p], sfs, <<>>, fault)
    ELSE
      LET w1 == [w EXCEPT !.buffer = @ \o Take(p, space)]
          f == flush(w1, sfs, IF fault.at = 1 THEN fault ELSE NoFault)
      IN IF f.err # "nil" THEN f
         ELSE WriteLoop(f.w, f.sfs, Drop(p, space),
                        [fault EXCEPT !.at = @ - 1])

\* A Write that flushes what is left in the buffer before it returns.
WriteCallFlushEach(w, sfs, p, fault) ==
  LET r == WriteLoop(w, sfs, p, fault)
      f == flush(r.w, r.sfs, NoFault)
  IN
  IF r.err # "nil" THEN r
  ELSE [f EXCEPT !.w.size = @ + Len(p), !.w.accepted = @ \o p]

\* shardedWriter.Write: the size grows only when every flush succeeded.
WriteCall(w, sfs, p, fault) ==
  LET r == WriteLoop(w, sfs, p, fault) IN
  IF r.err # "nil" THEN r
  ELSE [r EXCEPT !.w.size = @ + Len(p), !.w.accepted = @ \o p]

\* The errors of the package that callers compare with (errors.Is).
ErrInvalid == "invalid argument"
ErrClosed == "sbox: already closed"
ErrNotSupported == "sbox: feature not supported by this backend"

\* shardedWriter.Seek; its error is made on the spot with errors.New.
WriterSeek(w, offset, whence) ==
  IF whence = "start" /\ offset = w.size THEN [n |-> w.size, err |-> "nil"]
  ELSE IF whence = "start" /\ offset = 0 /\ w.size = 0
    THEN [n |-> 0, err |-> "nil"]
  ELSE [n |-> 0, err |-> "sbox/sharded: seek only supported to current end"]

\* shardedWriter.Close on the manifest filesystem mfs of the writer's engine.
CloseCall(w, mfs, sfs, fault) ==
  LET f == flush(w, sfs, IF fault.at = 1 THEN fault ELSE NoFault) IN
  IF f.err # "nil" THEN [w |-> f.w, mfs |-> mfs, sfs |-> f.sfs, err |-> f.err]
  ELSE
    LET data == Marshal(Manifest(f.w.hashes, f.w.chunkSizes, f.w.size))
        mPath == manifestPath(w.path)
        mf == IF fault.at = 2 THEN fault ELSE NoFault
    IN
    IF mf.kind = "mkdir" \/ ~FsMkdirAllOk(mfs, Dir(mPath))
      THEN [w |-> f.w, mfs |-> mfs, sfs |-> f.sfs, err |-> "io"]
    ELSE
      LET mfs1 == FsMkdirAll(mfs, Dir(mPath))
          back == [f.w EXCEPT !.buffer = <<>>]
      IN
      IF mf.kind = "open" \/ ~FsWriteFileOk(mfs1, mPath)
        THEN [w |-> back, mfs |-> mfs1, sfs |-> f.sfs, err |-> "io"]
      ELSE IF mf.kind = "short"
        THEN [w |-> back, mfs |-> FsWriteFile(mfs1, mPath, PartialJson),
              sfs |-> f.sfs, err |-> "io"]
      ELSE IF mf.kind = "close"
        THEN [w |-> back, mfs |-> FsWriteFile(mfs1, mPath, data),
              sfs |-> f.sfs, err |-> "io"]
      ELSE [w |-> [back EXCEPT !.st = "closed"],
            mfs |-> FsWriteFile(mfs1, mPath, data),
            sfs |-> f.sfs, err |-> "nil"]

\* ---------------------------------------------------------------- reader

\* The chunk that holds offset when the manifest lists chunk sizes: the first
\* index whose running total passes the offset, 0 when there is none.
RECURSIVE FindChunk(_, _, _, _)
FindChunk(sizes, offset, i, current) ==
  IF i > Len(sizes) THEN [idx |-> 0, off |-> 0]
  ELSE IF offset < current + sizes[i]
    THEN [idx |-> i, off |-> offset - current]
  ELSE FindChunk(sizes, offset, i + 1, current + sizes[i])

\* A lookup that takes a manifest without sizes to hold one chunk.
ResolveOneChunk(m, offset) ==
  IF Len(m.chunkSizes) > 0 THEN FindChunk(m.chunkSizes, offset, 1, 0)
  ELSE [idx |-> 1, off |-> offset]

\* Chunk index (from 1) and the offset inside the chunk.
Resolve(m, offset) ==
  IF Len(m.chunkSizes) > 0 THEN FindChunk(m.chunkSizes, offset, 1, 0)
  ELSE [idx |-> (offset \div ChunkSize) + 1, off |-> offset % ChunkSize]

\* The loop of shardedReader.Read for a buffer with n bytes of room left; acc
\* is what the call has read so far.
RECURSIVE ReadLoop(_, _, _, _, _)
ReadLoop(m, sfs, offset, n, acc) ==
  IF ~(n > 0 /\ offset < m.size)
    THEN [offset |-> offset, data |-> acc, err |-> "nil"]
  ELSE
    LET c == Resolve(m, offset) IN
    IF c.idx = 0 \/ c.idx > Len(m.chunks)
      THEN [offset |-> offset, data |-> acc, err |-> "unexpectedEOF"]
    ELSE
      LET sp == shardPath(m.chunks[c.idx]) IN
      IF ~FsIsFile(sfs, sp)
        THEN [offset |-> offset, data |-> acc, err |-> "notexist"]
      ELSE
        LET remainingInChunk ==
              IF Len(m.chunkSizes) > 0 THEN m.chunkSizes[c.idx] - c.off
              ELSE ChunkSize - c.off
            toRead == Min(remainingInChunk, n)
            bytes == SubSeq(sfs.files[sp], c.off + 1,
                            Min(c.off + toRead, Len(sfs.files[sp])))
        IN
        IF Len(bytes) = 0
          THEN [offset |-> offset, data |-> acc, err |-> "nil"]
        ELSE ReadLoop(m, sfs, offset + Len(bytes), n - Len(bytes),
                      acc \o bytes)

\* shardedReader.Read with a buffer of n bytes.
ReadCall(m, sfs, offset, n) ==
  IF offset >= m.size THEN [offset |-> offset, data |-> <<>>, err |-> "EOF"]
  ELSE ReadLoop(m, sfs, offset, n, <<>>)

\* A Seek that takes every offset as relative to the current one.
ReaderSeekRelative(r, offset, whence) ==
  IF r.offset + offset < 0 \/ r.offset + offset > r.manifest.size
    THEN [offset |-> r.offset, n |-> 0,
          err |-> "sbox/sharded: seek offset out of range"]
  ELSE [offset |-> r.offset + offset, n |-> r.offset + offset, err |-> "nil"]

\* shardedReader.Seek; its errors are made on the spot with errors.New.
ReaderSeek(r, offset, whence) ==
  LET newOffset == IF whence = "start" THEN offset
                   ELSE IF whence = "current" THEN r.offset + offset
                   ELSE r.manifest.size + offset
  IN
  IF whence \notin {"start", "current", "end"}
    THEN [offset |-> r.offset, n |-> 0, err |-> "sbox/sharded: invalid whence"]
  ELSE IF newOffset < 0 \/ newOffset > r.manifest.size
    THEN [offset |-> r.offset, n |-> 0,
          err |-> "sbox/sharded: seek offset out of range"]
  ELSE [offset |-> newOffset, n |-> newOffset, err |-> "nil"]

\* io.ReadAll on a reader at offset: Read until it reports end-of-stream
\* ("EOF"), fails, or returns no byte and no error ("stall": ReadAll never
\* returns).
ReadAll(m, sfs, offset) ==
  LET r == ReadLoop(m, sfs, offset, m.size - offset, <<>>) IN
  [data |-> r.data,
   end |-> IF r.err # "nil" THEN r.err
           ELSE IF r.offset >= m.size THEN "EOF" ELSE "stall"]

\* ---------------------------------------------------------------- facade

\* afero.ReadFile
FsReadFileOk(fs, p) == FsIsFile(fs, p)

\* A Stat that takes the size of a file as whole chunks.
StatWholeChunks(mfs, path) ==
  LET p == cleanPath(path)
      mPath == manifestPath(path)
      mDir == manifestDirPath(path)
  IN
  IF p = <<>>
    THEN [err |-> "nil", name |-> Slash, size |-> 0, isDir |-> TRUE]
  ELSE IF FsReadFileOk(mfs, mPath) THEN
    IF ~UnmarshalOk(mfs.files[mPath])
      THEN [err |-> "json", name |-> <<>>, size |-> 0, isDir |-> FALSE]
    ELSE [err |-> "nil", name |-> Base(p),
          size |-> Len(Unmarshal(mfs.files[mPath]).chunks) * ChunkSize,
          isDir |-> FALSE]
  ELSE IF FsIsDir(mfs, mDir)
    THEN [err |-> "nil", name |-> Base(p), size |-> 0, isDir |-> TRUE]
  ELSE [err |-> "notexist", name |-> <<>>, size |-> 0, isDir |-> FALSE]

\* Engine.Stat
Stat(mfs, path) ==
  LET p == cleanPath(path)
      mPath == manifestPath(path)
      mDir == manifestDirPath(path)
  IN
  IF p = <<>>
    THEN [err |-> "nil", name |-> Slash, size |-> 0, isDir |-> TRUE]
  ELSE IF FsReadFileOk(mfs, mPath) THEN
    IF ~UnmarshalOk(mfs.files[mPath])
      THEN [err |-> "json", name |-> <<>>, size |-> 0, isDir |-> FALSE]
    ELSE [err |-> "nil", name |-> Base(p),
          size |-> Unmarshal(mfs.files[mPath]).size, isDir |-> FALSE]
  ELSE IF FsIsDir(mfs, mDir)
    THEN [err |-> "nil", name |-> Base(p), size |-> 0, isDir |-> TRUE]
  ELSE [err |-> "notexist", name |-> <<>>, size |-> 0, isDir |-> FALSE]

\* sbox.EntryInfo (without ModTime)
EntryInfo(name, size, isDir, path) ==
  [name |-> name, size |-> size, isDir |-> isDir, path |-> path]

\* The names afero.ReadDir finds in the directory d.
FsReadDirNames(fs, d) ==
  SortNames({Base(q) : q \in {c \in fs.dirs \cup DOMAIN fs.files :
                                c # <<>> /\ Dir(c) = d}})

\* A loop that takes every file of the directory for a descriptor.
RECURSIVE ReadDirLoopAnyFile(_, _, _, _, _)
ReadDirLoopAnyFile(mfs, path, mDir, names, result) ==
  IF names = <<>> THEN result
  ELSE
    LET name == Head(names)
        child == Append(mDir, name)
        entry ==
          IF FsIsDir(mfs, child)
            THEN <<EntryInfo(name, 0, TRUE, Join(path, <<name>>))>>
          ELSE LET logicalName == TrimSuffixJson(name)
                   size == IF FsReadFileOk(mfs, child)
                              /\ UnmarshalOk(mfs.files[child])
                             THEN Unmarshal(mfs.files[child]).size
                           ELSE 0
               IN <<EntryInfo(logicalName, size, FALSE,
                              Join(path, <<logicalName>>))>>
    IN ReadDirLoopAnyFile(mfs, path, mDir, Tail(names), result \o entry)

\* The loop of Engine.ReadDir over the names that are left.
RECURSIVE ReadDirLoop(_, _, _, _, _)
ReadDirLoop(mfs, path, mDir, names, result) ==
  IF names = <<>> THEN result
  ELSE
    LET name == Head(names)
        child == Append(mDir, name)
        entry ==
          IF FsIsDir(mfs, child)
            THEN <<EntryInfo(name, 0, TRUE, Join(path, <<name>>))>>
          ELSE IF HasSuffixJson(name)
            THEN LET logicalName == TrimSuffixJson(name)
                     size == IF FsReadFileOk(mfs, child)
                                /\ UnmarshalOk(mfs.files[child])
                               THEN Unmarshal(mfs.files[child]).size
                             ELSE 0
                 IN <<EntryInfo(logicalName, size, FALSE,
                                Join(path, <<logicalName>>))>>
          ELSE <<>>
    IN ReadDirLoop(mfs, path, mDir, Tail(names), result \o entry)

\* Engine.ReadDir
ReadDir(mfs, path) ==
  LET mDir == manifestDirPath(path) IN
  IF ~FsExists(mfs, mDir) THEN
    IF cleanPath(path) = <<>> THEN [err |-> "nil", entries |-> <<>>]
    ELSE [err |-> "notexist", entries |-> <<>>]
  ELSE IF ~FsIsDir(mfs, mDir) THEN [err |-> "notdir", entries |-> <<>>]
  ELSE [err |-> "nil",
        entries |-> ReadDirLoop(mfs, path, mDir, FsReadDirNames(mfs, mDir),
                                <<>>)]

\* ------------------------------------------------------------------ walk

\* A WalkFunc is given by the calls it answers with filepath.SkipDir (skip)
\* and the calls it answers with an error of its own (fail), each a pair
\* <<path, info.IsDir>>; every other call returns nil.
WalkFn(path, isDir, fn) ==
  IF <<path, isDir>> \in fn.fail THEN "failed"
  ELSE IF <<path, isDir>> \in fn.skip THEN "SkipDir"
  ELSE "nil"

\* The WalkFunc that always returns nil.
FnNil == [skip |-> {}, fail |-> {}]

\* One call of the WalkFunc: fn(path, info, err); isDir is info.IsDir, FALSE
\* when info is nil.
WalkCall(path, isDir, err) == [path |-> path, isDir |-> isDir, err |-> err]

\* walkDir, and its loop over the entries that are left; calls is the
\* sequence of WalkFunc calls made so far.
RECURSIVE walkDir(_, _, _, _, _)
RECURSIVE walkEntries(_, _, _, _)

walkEntries(mfs, entries, fn, calls) ==
  IF entries = <<>> THEN [calls |-> calls, err |-> "nil"]
  ELSE
    LET entry == Head(entries)
        r == walkDir(mfs, entry.path, entry.isDir, fn, calls)
    IN
    IF r.err = "SkipDir" THEN [calls |-> r.calls, err |-> "nil"]
    ELSE IF r.err # "nil" THEN r
    ELSE walkEntries(mfs, Tail(entries), fn, r.calls)

\* A walkDir that hands the SkipDir of a directory on to its caller.
walkDirLeak(mfs, path, isDir, fn, calls) ==
  LET first == Append(calls, WalkCall(path, isDir, "nil"))
      rd == ReadDir(mfs, path)
  IN
  IF ~isDir THEN [calls |-> first, err |-> WalkFn(path, isDir, fn)]
  ELSE IF WalkFn(path, isDir, fn) # "nil"
    THEN [calls |-> first, err |-> WalkFn(path, isDir, fn)]
  ELSE IF rd.err # "nil" THEN
    LET second == Append(first, WalkCall(path, FALSE, rd.err)) IN
    IF WalkFn(path, FALSE, fn) # "nil"
      THEN [calls |-> second, err |-> WalkFn(path, FALSE, fn)]
    ELSE walkEntries(mfs, rd.entries, fn, second)
  ELSE walkEntries(mfs, rd.entries, fn, first)

walkDir(mfs, path, isDir, fn, calls) ==
  LET first == Append(calls, WalkCall(path, isDir, "nil"))
      rd == ReadDir(mfs, path)
  IN
  IF ~isDir THEN [calls |-> first, err |-> WalkFn(path, isDir, fn)]
  ELSE IF WalkFn(path, isDir, fn) = "SkipDir"
    THEN [calls |-> first, err |-> "nil"]
  ELSE IF WalkFn(path, isDir, fn) # "nil"
    THEN [calls |-> first, err |-> WalkFn(path, isDir, fn)]
  ELSE IF rd.err # "nil" THEN
    LET second == Append(first, WalkCall(path, FALSE, rd.err)) IN
    IF WalkFn(path, FALSE, fn) = "SkipDir"
      THEN [calls |-> second, err |-> "nil"]
    ELSE IF WalkFn(path, FALSE, fn) # "nil"
      THEN [calls |-> second, err |-> WalkFn(path, FALSE, fn)]
    ELSE walkEntries(mfs, rd.entries, fn, second)
  ELSE walkEntries(mfs, rd.entries, fn, first)

\* Walk
Walk(mfs, root, fn) ==
  LET info == Stat(mfs, root)
      r == IF info.err # "nil"
             THEN [calls |-> <<WalkCall(root, FALSE, info.err)>>,
                   err |-> WalkFn(root, FALSE, fn)]
           ELSE walkDir(mfs, root, info.isDir, fn, <<>>)
  IN
  IF r.err = "SkipDir" THEN [r EXCEPT !.err = "nil"] ELSE r

\* Engine.Open: the error, and the manifest the reader is made with.
OpenCall(mfs, path) ==
  LET mPath == manifestPath(path) IN
  IF ~FsReadFileOk(mfs, mPath)
    THEN [err |-> "notexist", manifest |-> Manifest(<<>>, <<>>, 0)]
  ELSE IF ~UnmarshalOk(mfs.files[mPath])
    THEN [err |-> "json", manifest |-> Manifest(<<>>, <<>>, 0)]
  ELSE [err |-> "nil", manifest |-> Unmarshal(mfs.files[mPath])]

newShardedReader(e, path, m) ==
  [FreeReader EXCEPT !.st = "open", !.engine = e, !.path = path,
                     !.manifest = m, !.offset = 0]

\* A seeding that takes the sizes as the manifest has them.
SeedChunkSizesAsStored(m) == m.chunkSizes

\* The chunk sizes an append writer starts with.
SeedChunkSizes(m) ==
  IF Len(m.chunkSizes) = 0 /\ Len(m.chunks) > 0
    THEN [i \in 1..Len(m.chunks) |->
            IF i < Len(m.chunks) THEN ChunkSize
            ELSE m.size - (Len(m.chunks) - 1) * ChunkSize]
  ELSE m.chunkSizes

\* The open flags: O_CREATE|O_WRONLY|O_TRUNC (Create), O_WRONLY|O_APPEND,
\* O_CREATE|O_WRONLY|O_APPEND, O_WRONLY.
FlagCreate(flag) == flag \in {"create", "createAppend"}
FlagAppend(flag) == flag \in {"append", "createAppend"}
FlagTrunc(flag) == flag = "create"
Flags == {"create", "append", "createAppend", "write"}

\* An OpenFile that never loads the manifest that is there.
OpenFileCallEmpty(e, mfs, path, flag, fault) ==
  LET mPath == manifestPath(path)
      writer == [FreeWriter EXCEPT !.st = "open", !.engine = e, !.path = path,
                                   !.flag = flag]
  IN
  IF FlagCreate(flag) /\ (fault.kind = "mkdir" \/ ~FsMkdirAllOk(mfs, Dir(mPath)))
    THEN [w |-> FreeWriter, mfs |-> mfs, err |-> "io"]
  ELSE IF FlagCreate(flag)
    THEN [w |-> writer, mfs |-> FsMkdirAll(mfs, Dir(mPath)), err |-> "nil"]
  ELSE [w |-> writer, mfs |-> mfs, err |-> "nil"]

\* Engine.OpenFile
OpenFileCall(e, mfs, path, flag, fault) ==
  LET mPath == manifestPath(path)
      writer == [FreeWriter EXCEPT !.st = "open", !.engine = e, !.path = path,
                                   !.flag = flag]
      exists == FsExists(mfs, mPath)
  IN
  IF exists /\ FlagAppend(flag) /\ ~FlagTrunc(flag) THEN
    IF fault.kind # "read" /\ FsReadFileOk(mfs, mPath)
       /\ UnmarshalOk(mfs.files[mPath])
      THEN LET m == Unmarshal(mfs.files[mPath]) IN
           [w |-> [writer EXCEPT !.hashes = m.chunks,
                                 !.chunkSizes = SeedChunkSizes(m),
                                 !.size = m.size],
            mfs |-> mfs, err |-> "nil"]
    ELSE [w |-> writer, mfs |-> mfs, err |-> "nil"]
  ELSE IF FlagCreate(flag) THEN
    IF fault.kind = "mkdir" \/ ~FsMkdirAllOk(mfs, Dir(mPath))
      THEN [w |-> FreeWriter, mfs |-> mfs, err |-> "io"]
    ELSE [w |-> writer, mfs |-> FsMkdirAll(mfs, Dir(mPath)), err |-> "nil"]
  ELSE [w |-> writer, mfs |-> mfs, err |-> "nil"]

\* Fs.Remove: a file, or a directory that is empty.
FsRemove(fs, p) ==
  IF FsIsFile(fs, p) THEN [fs |-> FsRemoveFile(fs, p), err |-> "nil"]
  ELSE IF \E q \in fs.dirs \cup DOMAIN fs.files : q # p /\ Under(p, q)
    THEN [fs |-> fs, err |-> "notempty"]
  ELSE [fs |-> [fs EXCEPT !.dirs = (@ \ {p}) \cup {<<>>}], err |-> "nil"]

\* Engine.Remove
RemoveCall(mfs, path, fault) ==
  LET mPath == manifestPath(path)
      mDir == manifestDirPath(path)
  IN
  IF fault.kind = "remove" THEN [mfs |-> mfs, err |-> "io"]
  ELSE IF FsExists(mfs, mPath)
    THEN LET r == FsRemove(mfs, mPath) IN [mfs |-> r.fs, err |-> r.err]
  ELSE [mfs |-> FsRemoveAll(mfs, mDir), err |-> "nil"]

\* Fs.Rename: old must exist; a file replaces a file, a directory goes to a
\* free name or replaces an empty directory, and never into itself.
FsRename(fs, old, new) ==
  IF ~FsExists(fs, old) THEN [fs |-> fs, err |-> "notexist"]
  ELSE IF old = new THEN [fs |-> fs, err |-> "nil"]
  ELSE IF ~FsIsDir(fs, Dir(new)) THEN [fs |-> fs, err |-> "notexist"]
  ELSE IF FsIsFile(fs, old) THEN
    IF FsIsDir(fs, new) THEN [fs |-> fs, err |-> "isdir"]
    ELSE [fs |-> FsRenameFile(fs, old, new), err |-> "nil"]
  ELSE IF FsIsFile(fs, new) THEN [fs |-> fs, err |-> "notdir"]
  ELSE IF Under(old, new) THEN [fs |-> fs, err |-> "invalid"]
  ELSE IF \E q \in fs.dirs \cup DOMAIN fs.files : q # new /\ Under(new, q)
    THEN [fs |-> fs, err |-> "notempty"]
  ELSE [fs |-> FsRenameDir(fs, old, new), err |-> "nil"]

\* Engine.Rename
RenameCall(mfs, oldPath, newPath, fault) ==
  LET oldM == manifestPath(oldPath)
      newM == manifestPath(newPath)
      oldD == manifestDirPath(oldPath)
      newD == manifestDirPath(newPath)
  IN
  IF FsExists(mfs, oldM) THEN
    IF fault.kind = "mkdir" \/ ~FsMkdirAllOk(mfs, Dir(newM))
      THEN [mfs |-> mfs, err |-> "io"]
    ELSE IF fault.kind = "rename"
      THEN [mfs |-> FsMkdirAll(mfs, Dir(newM)), err |-> "io"]
    ELSE LET r == FsRename(FsMkdirAll(mfs, Dir(newM)), oldM, newM) IN
         [mfs |-> r.fs, err |-> r.err]
  ELSE
    IF fault.kind = "mkdir" \/ ~FsMkdirAllOk(mfs, Dir(newD))
      THEN [mfs |-> mfs, err |-> "io"]
    ELSE IF fault.kind = "rename"
      THEN [mfs |-> FsMkdirAll(mfs, Dir(newD)), err |-> "io"]
    ELSE LET r == FsRename(FsMkdirAll(mfs, Dir(newD)), oldD, newD) IN
         [mfs |-> r.fs, err |-> r.err]

\* Engine.MkdirAll
MkdirAllCall(mfs, path, fault) ==
  LET mDir == manifestDirPath(path) IN
  IF fault.kind = "mkdir" \/ ~FsMkdirAllOk(mfs, mDir)
    THEN [mfs |-> mfs, err |-> "io"]
  ELSE [mfs |-> FsMkdirAll(mfs, mDir), err |-> "nil"]

\* A Copy that stops after opening the target.
CopyCallPartial(mfs, src, dst, fault) ==
  IF ~FsReadFileOk(mfs, manifestPath(src))
    THEN [mfs |-> mfs, err |-> "notexist"]
  ELSE [mfs |-> FsWriteFile(FsMkdirAll(mfs, Dir(manifestPath(dst))),
                            manifestPath(dst), PartialJson),
        err |-> "nil"]

\* Engine.Copy: the bytes of the source manifest are written to the target.
CopyCall(mfs, src, dst, fault) ==
  LET srcM == manifestPath(src)
      dstM == manifestPath(dst)
  IN
  IF fault.kind = "read" \/ ~FsReadFileOk(mfs, srcM)
    THEN [mfs |-> mfs, err |-> "notexist"]
  ELSE IF fault.kind = "mkdir" \/ ~FsMkdirAllOk(mfs, Dir(dstM))
    THEN [mfs |-> mfs, err |-> "io"]
  ELSE
    LET data == mfs.files[srcM]
        mfs1 == FsMkdirAll(mfs, Dir(dstM))
    IN
    IF fault.kind = "open" \/ ~FsWriteFileOk(mfs1, dstM)
      THEN [mfs |-> mfs1, err |-> "io"]
    ELSE IF fault.kind = "short"
      THEN [mfs |-> FsWriteFile(mfs1, dstM, PartialJson), err |-> "io"]
    ELSE IF fault.kind = "close"
      THEN [mfs |-> FsWriteFile(mfs1, dstM, data), err |-> "io"]
    ELSE [mfs |-> FsWriteFile(mfs1, dstM, data), err |-> "nil"]

\* Room in the buffer of copyBuffered: more than a chunk, so that a Read ends
\* inside a chunk.
CopyBufSize == ChunkSize + 1

\* A copy loop that returns after the first Read.
copyBufferedOnce(m, sfs, offset, acc) ==
  LET r == ReadCall(m, sfs, offset, CopyBufSize) IN
  [data |-> acc \o r.data, err |-> IF r.err = "EOF" THEN "nil" ELSE r.err]

\* copyBuffered: Read into the buffer and hand the bytes to the hash until
\* Read reports end-of-stream or fails; acc is what the hash has been given.
\* A Read of no byte and no error makes the loop run forever ("stall").
RECURSIVE copyBuffered(_, _, _, _)
copyBuffered(m, sfs, offset, acc) ==
  LET r == ReadCall(m, sfs, offset, CopyBufSize) IN
  IF r.err = "EOF" THEN [data |-> acc \o r.data, err |-> "nil"]
  ELSE IF r.err # "nil" THEN [data |-> acc \o r.data, err |-> r.err]
  ELSE IF Len(r.data) = 0 THEN [data |-> acc, err |-> "stall"]
  ELSE copyBuffered(m, sfs, r.offset, acc \o r.data)

\* Engine.Hash
Hash(mfs, sfs, path, algorithm) ==
  IF algorithm # "sha256" THEN [hash |-> <<>>, err |-> "unsupported"]
  ELSE
    LET o == OpenCall(mfs, path) IN
    IF o.err # "nil" THEN [hash |-> <<>>, err |-> o.err]
    ELSE
      LET c == copyBuffered(o.manifest, sfs, 0, <<>>) IN
      IF c.err # "nil" THEN [hash |-> <<>>, err |-> c.err]
      ELSE [hash |-> Sha256Hex(c.data), err |-> "nil"]

\* --------------------------------------------------------------- actions

PA == <<<<"a">>>>
PB == <<<<"b">>>>
PAB == <<<<"a">>, <<"b">>>>

\* The handle the next OpenFile or Open returns: ids are used in order.
NextFree(hs, id) == hs[id].st = "free" /\ \A j \in 1..(id - 1) : hs[j].st # "free"

\* The bytes a writer has taken in, counted or not.
Consumed(w) == Sum(w.chunkSizes) + Len(w.buffer)

\* What Open and io.ReadAll give for a path of engine e.
Content(e, path) ==
  LET o == OpenCall(manifestFs[e], path) IN
  IF o.err # "nil" THEN [data |-> <<>>, end |-> o.err]
  ELSE ReadAll(o.manifest, shardsFs, 0)

\* What the callers of engine e see of a path.
View(e, path) ==
  [stat |-> Stat(manifestFs[e], path), content |-> Content(e, path)]

OpenFile(w, e, path, flag, fault) ==
  /\ NextFree(writers, w)
  /\ LET r == OpenFileCall(e, manifestFs[e], path, flag, fault) IN
     /\ manifestFs' = [manifestFs EXCEPT ![e] = r.mfs]
     /\ writers' = [writers EXCEPT ![w] =
                      IF r.err = "nil" THEN [r.w EXCEPT !.pre = View(e, path)]
                      ELSE r.w]
     /\ ret' = Ret("OpenFile", w, r.err)
  /\ UNCHANGED <<shardsFs, readers, registry, bufferPool>>

Write(w, p, fault) ==
  /\ writers[w].st = "open"
  /\ LET r == WriteCall(writers[w], shardsFs, p, fault) IN
     /\ writers' = [writers EXCEPT ![w] =
                      [r.w EXCEPT !.werr = @ \/ r.err # "nil"]]
     /\ shardsFs' = r.sfs
     /\ ret' = Ret("Write", w, r.err)
  /\ UNCHANGED <<manifestFs, readers, registry, bufferPool>>

WSeek(w, offset, whence) ==
  /\ writers[w].st = "open"
  /\ LET c == WriterSeek(writers[w], offset, whence) IN
     ret' = Ret("WSeek", <<w, offset, whence, c.n>>, c.err)
  /\ UNCHANGED <<manifestFs, shardsFs, writers, readers, registry, bufferPool>>

Close(w, fault) ==
  /\ writers[w].st = "open"
  /\ LET e == writers[w].engine
         r == CloseCall(writers[w], manifestFs[e], shardsFs, fault)
     IN
     /\ writers' = [writers EXCEPT ![w] = r.w]
     /\ manifestFs' = [manifestFs EXCEPT ![e] = r.mfs]
     /\ shardsFs' = r.sfs
     /\ ret' = Ret("Close", w, r.err)
  /\ UNCHANGED <<readers, registry, bufferPool>>

\* Engine.Stat and Engine.ReadDir change nothing; ret keeps the arguments.
StatStep(e, path) ==
  /\ ret' = Ret("Stat", <<e, path>>, Stat(manifestFs[e], path).err)
  /\ UNCHANGED <<manifestFs, shardsFs, writers, readers, registry, bufferPool>>

ReadDirStep(e, path) ==
  /\ ret' = Ret("ReadDir", <<e, path>>, ReadDir(manifestFs[e], path).err)
  /\ UNCHANGED <<manifestFs, shardsFs, writers, readers, registry, bufferPool>>

\* Engine.Hash; the result keeps the digest.
HashStep(e, path, algorithm) ==
  /\ LET r == Hash(manifestFs[e], shardsFs, path, algorithm) IN
     ret' = Ret("Hash", <<e, path, r.hash>>, r.err)
  /\ UNCHANGED <<manifestFs, shardsFs, writers, readers, registry, bufferPool>>

\* Walk with the WalkFunc fn.
WalkStep(e, root, fn) ==
  /\ ret' = Ret("Walk", <<e, root, fn>>, Walk(manifestFs[e], root, fn).err)
  /\ UNCHANGED <<manifestFs, shardsFs, writers, readers, registry, bufferPool>>

\* The caller cancels the context it handed to OpenFile.  OpenFile keeps no
\* reference to it, so no field of the writer changes.
Cancel(w) ==
  /\ writers[w].st = "open"
  /\ writers[w].ctx = "live"
  /\ writers' = [writers EXCEPT ![w].ctx = "done"]
  /\ ret' = Ret("Cancel", w, "nil")
  /\ UNCHANGED <<manifestFs, shardsFs, readers, registry, bufferPool>>

Open(r, e, path) ==
  /\ NextFree(readers, r)
  /\ LET o == OpenCall(manifestFs[e], path) IN
     /\ readers' = [readers EXCEPT ![r] =
                      IF o.err = "nil"
                        THEN [newShardedReader(e, path, o.manifest) EXCEPT
                                !.snap = ReadAll(o.manifest, shardsFs, 0)]
                      ELSE @]
     /\ ret' = Ret("Open", r, o.err)
  /\ UNCHANGED <<manifestFs, shardsFs, writers, registry, bufferPool>>

Read(r, n) ==
  /\ readers[r].st = "open"
  /\ LET c == ReadCall(readers[r].manifest, shardsFs, readers[r].offset, n) IN
     /\ readers' = [readers EXCEPT ![r].offset = c.offset,
                                   ![r].got = @ \o c.data,
                                   ![r].eof = (c.err = "EOF")]
     /\ ret' = Ret("Read", <<r, n, Len(c.data)>>, c.err)
  /\ UNCHANGED <<manifestFs, shardsFs, writers, registry, bufferPool>>

\* The offset a Seek asks for.
SeekTarget(r, offset, whence) ==
  CASE whence = "start" -> offset
    [] whence = "current" -> r.offset + offset
    [] whence = "end" -> r.manifest.size + offset
    [] OTHER -> -1

RSeek(r, offset, whence) ==
  /\ readers[r].st = "open"
  /\ LET c == ReaderSeek(readers[r], offset, whence) IN
     /\ readers' = [readers EXCEPT ![r] =
                      IF c.err = "nil"
                        THEN [@ EXCEPT !.offset = c.offset, !.got = <<>>,
                                       !.from = SeekTarget(readers[r], offset,
                                                           whence),
                                       !.eof = FALSE]
                      ELSE @]
     /\ ret' = Ret("RSeek", <<r, offset, whence, c.n>>, c.err)
  /\ UNCHANGED <<manifestFs, shardsFs, writers, registry, bufferPool>>

\* shardedReader.Close returns nil; the handle is dropped.
RClose(r) ==
  /\ readers[r].st = "open"
  /\ readers' = [readers EXCEPT ![r] = FreeReader]
  /\ ret' = Ret("RClose", r, "nil")
  /\ UNCHANGED <<manifestFs, shardsFs, writers, registry, bufferPool>>

\* A Remove that deletes the shards of the removed file as well.
RemoveWithShards(e, path, fault) ==
  /\ LET r == RemoveCall(manifestFs[e], path, fault)
         o == OpenCall(manifestFs[e], path)
         gone == IF o.err = "nil" /\ r.err = "nil"
                   THEN {shardPath(o.manifest.chunks[i]) :
                           i \in 1..Len(o.manifest.chunks)}
                 ELSE {}
     IN
     /\ manifestFs' = [manifestFs EXCEPT ![e] = r.mfs]
     /\ shardsFs' = [shardsFs EXCEPT !.files = FsDropFiles(@, gone)]
     /\ ret' = Ret("Remove", <<e, path>>, r.err)
  /\ UNCHANGED <<writers, readers, registry, bufferPool>>

Remove(e, path, fault) ==
  /\ LET r == RemoveCall(manifestFs[e], path, fault) IN
     /\ manifestFs' = [manifestFs EXCEPT ![e] = r.mfs]
     /\ ret' = Ret("Remove", <<e, path>>, r.err)
  /\ UNCHANGED <<shardsFs, writers, readers, registry, bufferPool>>

Rename(e, oldPath, newPath, fault) ==
  /\ LET r == RenameCall(manifestFs[e], oldPath, newPath, fault) IN
     /\ manifestFs' = [manifestFs EXCEPT ![e] = r.mfs]
     /\ ret' = Ret("Rename", <<e, oldPath, newPath>>, r.err)
  /\ UNCHANGED <<shardsFs, writers, readers, registry, bufferPool>>

MkdirAll(e, path, fault) ==
  /\ LET r == MkdirAllCall(manifestFs[e], path, fault) IN
     /\ manifestFs' = [manifestFs EXCEPT ![e] = r.mfs]
     /\ ret' = Ret("MkdirAll", <<e, path>>, r.err)
  /\ UNCHANGED <<shardsFs, writers, readers, registry, bufferPool>>

Copy(e, src, dst, fault) ==
  /\ LET r == CopyCall(manifestFs[e], src, dst, fault) IN
     /\ manifestFs' = [manifestFs EXCEPT ![e] = r.mfs]
     /\ ret' = Ret("Copy", <<e, src, dst>>, r.err)
  /\ UNCHANGED <<shardsFs, writers, readers, registry, bufferPool>>

\* ------------------------------------------------- the general specification
\* Two engines on one shard store, every operation, every failure.

Paths == {PA, PB}

Payloads(n) == SeqsUpTo(Byte, n) \ {<<>>}

WriteFaults(n) ==
  {NoFault} \cup
  {Fault(at, k, 0) : at \in 1..n, k \in {"mkdir", "open", "close"}} \cup
  {Fault(at, "short", c) : at \in 1..n, c \in 0..(ChunkSize - 1)}

CloseFaults ==
  WriteFaults(1) \cup {Fault(2, k, 0) : k \in {"mkdir", "open", "short", "close"}}

NsFaults(kinds) == {NoFault} \cup {Fault(1, k, 0) : k \in kinds}

DoOpenFile ==
  \E w \in WriterIds, e \in Engines, path \in Paths, flag \in Flags,
     fault \in NsFaults({"mkdir", "read"}) :
    OpenFile(w, e, path, flag, fault)

DoWrite ==
  \E w \in WriterIds :
    \E p \in Payloads(MaxFile - Consumed(writers[w])) :
      \E fault \in WriteFaults((Len(p) \div ChunkSize) + 1) :
        Write(w, p, fault)

DoWSeek ==
  \E w \in WriterIds, offset \in 0..MaxFile : WSeek(w, offset, "start")

DoClose == \E w \in WriterIds, fault \in CloseFaults : Close(w, fault)

DoOpen == \E r \in ReaderIds, e \in Engines, path \in Paths : Open(r, e, path)

DoRead == \E r \in ReaderIds, n \in 1..(ChunkSize + 1) : Read(r, n)

DoRSeek ==
  \E r \in ReaderIds, offset \in 0..MaxFile : RSeek(r, offset, "start")

DoRClose == \E r \in ReaderIds : RClose(r)

DoRemove ==
  \E e \in Engines, path \in Paths, fault \in NsFaults({"remove"}) :
    Remove(e, path, fault)

DoRename ==
  \E e \in Engines, old \in Paths, new \in Paths,
     fault \in NsFaults({"mkdir", "rename"}) :
    Rename(e, old, new, fault)

DoMkdirAll ==
  \E e \in Engines, path \in Paths, fault \in NsFaults({"mkdir"}) :
    MkdirAll(e, path, fault)

DoCopy ==
  \E e \in Engines, src \in Paths, dst \in Paths,
     fault \in NsFaults({"read", "mkdir", "open", "short", "close"}) :
    Copy(e, src, dst, fault)

Next ==
  \/ DoOpenFile
  \/ DoWrite
  \/ DoWSeek
  \/ DoClose
  \/ DoOpen
  \/ DoRead
  \/ DoRSeek
  \/ DoRClose
  \/ DoRemove
  \/ DoRename
  \/ DoMkdirAll
  \/ DoCopy

Spec == Init /\ [][Next]_vars

\* ------------------------------------------- the round-trip specification
\* One engine, one path, no failure: Create, Writes that split any content of
\* at most MaxLen bytes in any way, Close, then Open, Seek and Read with
\* buffers of every small size.

RTCreate == OpenFile(1, "A", PA, "create", NoFault)

RTWrite ==
  \E p \in Payloads(MaxLen - Consumed(writers[1])) : Write(1, p, NoFault)

RTClose == Close(1, NoFault)

RTOpen == writers[1].st = "closed" /\ Open(1, "A", PA)

RTSeek == \E offset \in 0..MaxLen : RSeek(1, offset, "start")

RTRead == \E n \in 1..(ChunkSize + 1) : Read(1, n)

NextRT ==
  \/ RTCreate
  \/ RTWrite
  \/ RTClose
  \/ RTOpen
  \/ RTSeek
  \/ RTRead

SpecRT == Init /\ [][NextRT]_vars

\* C1: a reader that was opened on the written path and has read from offset 0
\* up to end-of-stream has returned exactly the bytes handed to the writer, for
\* every content of 0..MaxLen bytes and every split into Write calls.
C1_RoundTrip ==
  \A r \in ReaderIds :
    (readers[r].st = "open" /\ readers[r].eof /\ readers[r].from = 0)
      => readers[r].got = writers[1].accepted

\* A content of 3 * chunk_size + 1 bytes was written and read back to the end.
C1_Witness ==
  /\ readers[1].eof
  /\ readers[1].from = 0
  /\ Len(readers[1].got) = 3 * ChunkSize + 1
  /\ writers[1].chunkSizes = <<ChunkSize, ChunkSize, ChunkSize, 1>>

\* C2: after a seek to offset o (from start) the bytes read are C[o..], byte
\* for byte as the reading advances, and end-of-stream comes exactly when all
\* of the suffix has been returned; every o in [0, |C|] is accepted.
C2_SeekSuffix ==
  \A r \in ReaderIds :
    readers[r].st = "open" =>
      /\ readers[r].got =
           SubSeq(writers[1].accepted, readers[r].from + 1, readers[r].offset)
      /\ readers[r].eof => readers[r].got =
                             Drop(writers[1].accepted, readers[r].from)
      /\ \A o \in 0..Len(writers[1].accepted) :
           ReaderSeek(readers[r], o, "start").err = "nil"

\* A seek into the middle of the second chunk, read to the end of 3 chunks + 1.
C2_Witness ==
  /\ readers[1].eof
  /\ readers[1].from = ChunkSize + 1
  /\ Len(writers[1].accepted) = 3 * ChunkSize + 1
  /\ Len(readers[1].got) = 2 * ChunkSize

\* ---------------------------------------------- the append specification
\* No failure.  Engine A creates path PA, writes any content A of at most
\* MaxTwo bytes and closes; then a second writer of A opens PA with the append
\* flag, writes any B of at most MaxTwo bytes and closes.

MaxTwo == 2 * ChunkSize

TwoCreate == OpenFile(1, "A", PA, "create", NoFault)

AppOpenFile ==
  /\ writers[1].st = "closed"
  /\ \E flag \in {"append", "createAppend"} : OpenFile(2, "A", PA, flag, NoFault)

TwoWrite ==
  \E w \in WriterIds :
    \E p \in Payloads(MaxTwo - Len(writers[w].accepted)) : Write(w, p, NoFault)

TwoClose == \E w \in WriterIds : Close(w, NoFault)

NextAppend ==
  \/ TwoCreate
  \/ AppOpenFile
  \/ TwoWrite
  \/ TwoClose

SpecAppend == Init /\ [][NextAppend]_vars

\* ----------------------------------------------- the dedup specification
\* No failure.  Engine A creates PA with any content C of at most MaxTwo bytes
\* and closes; engine B, with its own manifest store and the same shard store
\* and chunk size, then creates PA with the same content C in any split and
\* closes; then A removes PA, and a reader of A or B opens PA and reads.

DedupCreate ==
  /\ writers[1].st = "closed"
  /\ OpenFile(2, "B", PA, "create", NoFault)

DedupWrite ==
  \E p \in Payloads(MaxTwo) :
    /\ IsPrefix(writers[2].accepted \o p, writers[1].accepted)
    /\ Write(2, p, NoFault)

DedupClose ==
  /\ writers[2].accepted = writers[1].accepted
  /\ Close(2, NoFault)

BothClosed == \A w \in WriterIds : writers[w].st = "closed"

DedupRemove == BothClosed /\ Remove("A", PA, NoFault)

DedupOpen == BothClosed /\ \E e \in Engines : Open(1, e, PA)

DedupRead == \E n \in 1..(ChunkSize + 1) : Read(1, n)

NextDedup ==
  \/ TwoCreate
  \/ \E p \in Payloads(MaxTwo - Len(writers[1].accepted)) : Write(1, p, NoFault)
  \/ Close(1, NoFault)
  \/ DedupCreate
  \/ DedupWrite
  \/ DedupClose
  \/ DedupRemove
  \/ DedupOpen
  \/ DedupRead

SpecDedup == Init /\ [][NextDedup]_vars

\* The second writer appended to the file of the first, and its Close has just
\* returned without error.
AppendDone ==
  /\ ret.op = "Close" /\ ret.id = 2 /\ ret.err = "nil"
  /\ writers[1].st = "closed"
  /\ FlagAppend(writers[2].flag)
  /\ writers[2].engine = "A"

\* C3: write A (create, close), then append B (append flag, close): the file
\* reads back as A ++ B up to end-of-stream and Stat gives size |A| + |B|.
C3_Append ==
  AppendDone =>
    /\ Content("A", PA) =
         [data |-> writers[1].accepted \o writers[2].accepted, end |-> "EOF"]
    /\ Stat(manifestFs["A"], PA).err = "nil"
    /\ Stat(manifestFs["A"], PA).size =
         Len(writers[1].accepted) + Len(writers[2].accepted)

\* An append of a part chunk to a file that ends in a part chunk.
C3_Witness ==
  /\ AppendDone
  /\ Len(writers[1].accepted) = ChunkSize + 1
  /\ Len(writers[2].accepted) = ChunkSize - 1
  /\ writers[2].chunkSizes = <<ChunkSize, 1, ChunkSize - 1>>

\* The chunks a content is cut into.
NumChunks(c) == (Len(c) + ChunkSize - 1) \div ChunkSize

ChunksOf(c) ==
  {SubSeq(c, (i - 1) * ChunkSize + 1, Min(i * ChunkSize, Len(c))) :
     i \in 1..NumChunks(c)}

ShardCount == Cardinality(DOMAIN shardsFs.files)

\* Engines A and B have both written the same content to PA.
BothWrote ==
  /\ ret.op = "Close" /\ ret.id = 2 /\ ret.err = "nil"
  /\ writers[1].st = "closed"
  /\ writers[2].engine = "B"
  /\ writers[1].accepted = writers[2].accepted

\* C4 as claimed: after both engines wrote content C the shard store holds
\* exactly ceil(|C| / chunk_size) shard files.
C4_Original == BothWrote => ShardCount = NumChunks(writers[1].accepted)

\* C4 as amended: after both engines wrote content C, each manifest lists
\* ceil(|C| / chunk_size) chunks and the shard store holds exactly one shard
\* file per distinct chunk content of C (so at most ceil(|C| / chunk_size)).
C4_Dedup ==
  BothWrote =>
    /\ ShardCount = Cardinality(ChunksOf(writers[1].accepted))
    /\ ShardCount <= NumChunks(writers[1].accepted)
    /\ \A e \in Engines :
         /\ OpenCall(manifestFs[e], PA).err = "nil"
         /\ Len(OpenCall(manifestFs[e], PA).manifest.chunks) =
              NumChunks(writers[1].accepted)

\* Both engines wrote two different full chunks, split differently.
C4_Witness ==
  /\ BothWrote
  /\ Len(writers[1].accepted) = 2 * ChunkSize
  /\ ShardCount = 2

\* A has just removed PA, which A and B both held with the same content.
RemovedAtA ==
  /\ ret.op = "Remove" /\ ret.err = "nil"
  /\ BothClosed
  /\ writers[1].accepted = writers[2].accepted
  /\ readers[1].st = "free"

FSetup ==
  \/ OpenFile(1, "A", PA, "create", NoFault)
  \/ /\ writers[1].accepted = <<>>
     /\ \E p \in Payloads(MaxFile) : Write(1, p, NoFault)
  \/ Close(1, NoFault)

FOpenFile ==
  /\ writers[1].st = "closed"
  /\ \E flag \in Flags, fault \in NsFaults({"mkdir", "read"}) :
       OpenFile(2, "A", PA, flag, fault)

FWrite ==
  /\ ~writers[2].werr
  /\ writers[2].accepted = <<>>
  /\ \E p \in Payloads(MaxFile) :
       \E fault \in WriteFaults((Len(p) \div ChunkSize) + 1) :
         Write(2, p, fault)

FClose == \E fault \in CloseFaults : Close(2, fault)

NextFault ==
  \/ FSetup
  \/ FOpenFile
  \/ FWrite
  \/ FClose

SpecFault == Init /\ [][NextFault]_vars

\* The manifests a reader of engine e can decode.
Manifests(e) ==
  {Unmarshal(manifestFs[e].files[p]) :
     p \in {q \in DOMAIN manifestFs[e].files :
              UnmarshalOk(manifestFs[e].files[q])}}

\* C7: in every manifest that carries chunk_sizes, chunk_sizes is as long as
\* chunks and its sum is size, also in a manifest that Close wrote after a
\* Write call had failed.
C7_ManifestConsistency ==
  \A e \in Engines : \A m \in Manifests(e) :
    Len(m.chunkSizes) > 0 =>
      /\ Len(m.chunkSizes) = Len(m.chunks)
      /\ Sum(m.chunkSizes) = m.size

\* C8: from OpenFile on a path until that writer's Close returns nil, Stat and
\* Open of the path give what they gave before the writer was opened.
C8_CommitOnlyAtClose ==
  \A w \in WriterIds :
    writers[w].st = "open" =>
      View(writers[w].engine, writers[w].path) = writers[w].pre

\* C9: when Close returns an error, Stat and Open of the writer's path give
\* what they gave before the writer was opened.
C9_FailedCloseUnchanged ==
  (ret.op = "Close" /\ ret.err # "nil") =>
    LET w == writers[ret.id] IN View(w.engine, w.path) = w.pre

\* ------------------------------------------- the namespace specification
\* Two engines on one shard store.  One writer after the other creates,
\* overwrites or appends to a path of either engine with one Write, any flush
\* and any Close failing in any way; while no writer is open the files of
\* engine A are removed, renamed and copied.

Pattern == [i \in 1..MaxFile |-> (i - 1) % 2]

NsPayloads == {Take(Pattern, n) : n \in 1..MaxFile}

NoneOpen == \A w \in WriterIds : writers[w].st # "open"

NsOpenFile ==
  /\ NoneOpen
  /\ \E w \in {1, 2}, e \in Engines, flag \in {"create", "append"} :
       OpenFile(w, e, PA, flag, NoFault)

NsWrite ==
  \E w \in WriterIds :
    /\ ~writers[w].werr
    /\ writers[w].accepted = <<>>
    /\ \E p \in NsPayloads :
         \E fault \in WriteFaults((Len(p) \div ChunkSize) + 1) :
           Write(w, p, fault)

NsRemove == NoneOpen /\ \E path \in Paths : Remove("A", path, NoFault)

NsRename ==
  NoneOpen /\ \E old \in Paths, new \in Paths : Rename("A", old, new, NoFault)

NsCopy ==
  NoneOpen /\ \E src \in Paths, dst \in Paths : Copy("A", src, dst, NoFault)

NextNs ==
  \/ NsOpenFile
  \/ NsWrite
  \/ DoClose
  \/ NsRemove
  \/ NsRename
  \/ NsCopy

SpecNs == Init /\ [][NextNs]_vars

\* The shard files that the manifests of the engines name.
Referenced ==
  UNION {{shardPath(m.chunks[i]) : i \in 1..Len(m.chunks)} :
           m \in UNION {Manifests(e) : e \in Engines}}

\* C6: every chunk hash in a manifest of any engine names a shard file that
\* exists in the shard store, and no operation deletes or changes a shard file
\* that a manifest names.
C6_RefIntegrity ==
  /\ [](\A sp \in Referenced : FsIsFile(shardsFs, sp))
  /\ [][\A sp \in Referenced :
          FsIsFile(shardsFs, sp) =>
            /\ FsIsFile(shardsFs', sp)
            /\ shardsFs'.files[sp] = shardsFs.files[sp]]_vars

\* A file written by a writer whose Write had failed is on engine A next to a
\* copy whose source was removed, and all of them name shards.
C6_Witness ==
  /\ \E w \in WriterIds : writers[w].werr /\ writers[w].st = "closed"
  /\ ~FsExists(manifestFs["A"], manifestPath(PA))
  /\ FsIsFile(manifestFs["A"], manifestPath(PB))
  /\ FsIsFile(manifestFs["B"], manifestPath(PA))
  /\ Referenced # {}
  /\ ret.op = "Remove" /\ ret.err = "nil"

\* --------------------------------------------- the snapshot specification
\* Writer 1 creates a file of MaxFile bytes of engine A with one Write; a
\* reader opens it and reads it in pieces, and from then on writer 2 overwrites
\* or appends to the path on either engine with at most a chunk, and the path
\* is removed or renamed.

SnapSetup ==
  \/ OpenFile(1, "A", PA, "create", NoFault)
  \/ /\ writers[1].accepted = <<>>
     /\ \E p \in SeqsOfLen(Byte, MaxFile) : Write(1, p, NoFault)
  \/ Close(1, NoFault)

SnapOpen == writers[1].st = "closed" /\ Open(1, "A", PA)

SnapRead == \E n \in 1..ChunkSize : Read(1, n)

SnapOpenFile ==
  /\ readers[1].st = "open"
  /\ \E e \in Engines, flag \in {"create", "append"} :
       OpenFile(2, e, PA, flag, NoFault)

SnapWrite ==
  /\ writers[2].accepted = <<>>
  /\ \E p \in Payloads(ChunkSize) : Write(2, p, NoFault)

SnapChange ==
  \/ Close(2, NoFault)
  \/ readers[1].st = "open" /\ Remove("A", PA, NoFault)
  \/ readers[1].st = "open" /\ Rename("A", PA, PB, NoFault)

NextSnap ==
  \/ SnapSetup
  \/ SnapOpen
  \/ SnapRead
  \/ SnapOpenFile
  \/ SnapWrite
  \/ SnapChange

SpecSnap == Init /\ [][NextSnap]_vars

\* C10: the bytes an open reader has returned, followed by the bytes its
\* further Reads return, are the content the file had when it was opened,
\* whatever was written to, removed from or renamed at the path since.
C10_ReaderSnapshot ==
  \A r \in ReaderIds :
    readers[r].st = "open" =>
      LET rest == ReadAll(readers[r].manifest, shardsFs, readers[r].offset) IN
      /\ readers[r].got \o rest.data = readers[r].snap.data
      /\ rest.end = readers[r].snap.end
      /\ readers[r].snap.end = "EOF"

\* A Read returned bytes of the middle of the file after the path had come to
\* hold something else.
C10_Witness ==
  /\ readers[1].st = "open"
  /\ ret.op = "Read" /\ ret.err = "nil"
  /\ 0 < Len(readers[1].got)
  /\ Len(readers[1].got) < Len(readers[1].snap.data)
  /\ Content("A", PA) # readers[1].snap

\* ------------------------------------------------- the race specification
\* Two writers are open on one path of engine A at the same time: each is
\* handed at most MaxFile bytes in any split, in any interleaving with the
\* other, and neither is closed before both are open.

RaceOpenFile ==
  \E w \in {1, 2}, flag \in {"create", "append"} :
    OpenFile(w, "A", PA, flag, NoFault)

RaceWrite ==
  \E w \in {1, 2} :
    \E p \in Payloads(MaxFile - Len(writers[w].accepted)) :
      Write(w, p, NoFault)

RaceClose ==
  /\ \A w \in {1, 2} : writers[w].st # "free"
  /\ \E w \in {1, 2} : Close(w, NoFault)

NextRace ==
  \/ RaceOpenFile
  \/ RaceWrite
  \/ RaceClose

SpecRace == Init /\ [][NextRace]_vars

\* The chunks a writer has flushed are in the shard store with their bytes.
Flushed(w) ==
  \A i \in 1..Len(w.hashes) :
    /\ FsIsFile(shardsFs, shardPath(w.hashes[i]))
    /\ Sha256Hex(shardsFs.files[shardPath(w.hashes[i])]) = w.hashes[i]

\* C11: when two writers that were open on one path at the same time have both
\* closed, the path holds the bytes of the writer that closed last, and the
\* shards that either of them flushed are in the shard store.
C11_LastCloseWins ==
  (ret.op = "Close" /\ \A w \in {1, 2} : writers[w].st = "closed") =>
    /\ Content("A", PA) = [data |-> writers[ret.id].accepted, end |-> "EOF"]
    /\ \A w \in {1, 2} : Flushed(writers[w])

\* Both have closed, each after at least one whole chunk and a tail, with
\* different bytes.
C11_Witness ==
  /\ ret.op = "Close"
  /\ \A w \in {1, 2} :
       writers[w].st = "closed" /\ Len(writers[w].accepted) > ChunkSize
  /\ writers[1].accepted # writers[2].accepted
  /\ Take(writers[1].accepted, ChunkSize) # Take(writers[2].accepted, ChunkSize)

\* ------------------------------------------- the cancellation specification
\* One writer after the other creates or overwrites a path of engine A, is
\* handed at most MaxFile bytes in any split, and is closed; its context is
\* cancelled at some point after its first chunk was flushed.

CancelOpenFile == NoneOpen /\ \E w \in {1, 2} : OpenFile(w, "A", PA, "create", NoFault)

CancelWrite ==
  \E w \in {1, 2} :
    \E p \in Payloads(MaxFile - Len(writers[w].accepted)) :
      Write(w, p, NoFault)

CancelAfterFlush ==
  \E w \in {1, 2} : Len(writers[w].hashes) > 0 /\ Cancel(w)

CancelClose == \E w \in {1, 2} : Close(w, NoFault)

NextCancel ==
  \/ CancelOpenFile
  \/ CancelWrite
  \/ CancelAfterFlush
  \/ CancelClose

SpecCancel == Init /\ [][NextCancel]_vars

\* C12: when the context of a writer was cancelled after it had flushed chunks
\* and before Close, the flushed shards stay in the shard store and Close
\* writes no manifest: Stat and Open of the path give what they gave before
\* the writer was opened.
C12_CancelledWriteInvisible ==
  (ret.op = "Close" /\ writers[ret.id].ctx = "done") =>
    /\ Flushed(writers[ret.id])
    /\ View(writers[ret.id].engine, writers[ret.id].path) = writers[ret.id].pre

\* ------------------------------------------------ the frame specification
\* Every operation of engine A on two paths.  One writer after the other
\* creates, overwrites or appends with one Write, whose first shard write may
\* stop part-way; while no writer is open, files are removed, renamed and
\* copied, directories are made, paths are looked up and listed, or a reader
\* is opened, moved, read and closed.

Quiet == NoneOpen /\ readers[1].st # "open"

FrameOpenFile ==
  /\ Quiet
  /\ \E w \in {1, 2}, flag \in {"create", "append"} :
       OpenFile(w, "A", PA, flag, NoFault)

FrameWrite ==
  \E w \in {1, 2} :
    /\ writers[w].accepted = <<>>
    /\ ~writers[w].werr
    /\ \E p \in NsPayloads, fault \in {NoFault, Fault(1, "short", 0)} :
         Write(w, p, fault)

FrameClose == \E w \in {1, 2} : Close(w, NoFault)

FrameNamespace ==
  /\ Quiet
  /\ \/ \E path \in Paths : Remove("A", path, NoFault)
     \/ Rename("A", PA, PB, NoFault)
     \/ Copy("A", PB, PA, NoFault)
     \/ MkdirAll("A", PB, NoFault)

FrameLookup ==
  /\ Quiet
  /\ \/ StatStep("A", PA)
     \/ ReadDirStep("A", <<>>)

FrameReader ==
  /\ NoneOpen
  /\ \/ Open(1, "A", PA)
     \/ Read(1, ChunkSize)
     \/ \E offset \in {0, ChunkSize} : RSeek(1, offset, "start")
     \/ RClose(1)

NextFrame ==
  \/ FrameOpenFile
  \/ FrameWrite
  \/ FrameClose
  \/ FrameNamespace
  \/ FrameLookup
  \/ FrameReader

SpecFrame == Init /\ [][NextFrame]_vars

\* The calls that take no writer.
FrameOps ==
  {"Remove", "Rename", "Copy", "MkdirAll", "Stat", "ReadDir", "Open", "Read",
   "RSeek", "RClose"}

\* C13: Remove, Rename, Copy, MkdirAll, Stat, ReadDir, Open and the Read and
\* Seek of a reader leave the shard store as it is, and no operation removes a
\* shard file or makes it shorter.
C13_ShardFrame ==
  [][/\ ret'.op \in FrameOps => shardsFs' = shardsFs
     /\ \A sp \in DOMAIN shardsFs.files :
          /\ FsIsFile(shardsFs', sp)
          /\ Len(shardsFs'.files[sp]) >= Len(shardsFs.files[sp])]_vars

\* Shards of two files are in the store, one of them cut short by a failed
\* write, and the last call removed a file.
C13_Witness ==
  /\ ret.op = "Remove" /\ ret.err = "nil"
  /\ Cardinality(DOMAIN shardsFs.files) >= 2
  /\ \E sp \in DOMAIN shardsFs.files : Len(shardsFs.files[sp]) = 0
  /\ \E w \in {1, 2} : writers[w].st = "closed" /\ Len(writers[w].hashes) > 0

\* ------------------------------------------------- the tree specification
\* Engine A with the paths a, b and a/b.  Two writers, one after the other,
\* create or overwrite the file a with one Write; while none is open, paths
\* are removed, renamed and copied and the directory a is made.

TreePaths == {PA, PB, PAB}

TreeOpenFile ==
  NoneOpen /\ \E w \in {1, 2} : OpenFile(w, "A", PA, "create", NoFault)

\* Writer 1 is handed more than a chunk, writer 2 a byte.
TreeWrite ==
  \E w \in {1, 2} :
    /\ writers[w].accepted = <<>>
    /\ Write(w, Take(Pattern, IF w = 1 THEN ChunkSize + 1 ELSE 1), NoFault)

TreeClose == \E w \in {1, 2} : Close(w, NoFault)

TreeRemove == NoneOpen /\ \E path \in {PA, PAB} : Remove("A", path, NoFault)

\* b is never moved to a/b, so the mirror tree stays two levels deep.
TreeRenames == (TreePaths \X TreePaths) \ {<<PB, PAB>>}

TreeRename ==
  /\ NoneOpen
  /\ \E r \in TreeRenames : Rename("A", r[1], r[2], NoFault)

TreeCopy ==
  /\ NoneOpen
  /\ \E src \in TreePaths, dst \in TreePaths : Copy("A", src, dst, NoFault)

TreeMkdirAll == NoneOpen /\ MkdirAll("A", PA, NoFault)

NextTree ==
  \/ TreeOpenFile
  \/ TreeWrite
  \/ TreeClose
  \/ TreeRemove
  \/ TreeRename
  \/ TreeCopy
  \/ TreeMkdirAll

SpecTree == Init /\ [][NextTree]_vars

\* Stat names a file at the path.
StatIsFile(mfs, path) == Stat(mfs, path).err = "nil" /\ ~Stat(mfs, path).isDir

\* C14: after Copy(src, dst) of a file, reading dst gives the bytes of src,
\* Stat(dst) gives the size of src, and the shard store has as many files as
\* before.
C14_Copy ==
  [][ret'.op = "Copy" =>
       LET e == ret'.id[1]
           src == ret'.id[2]
           dst == ret'.id[3]
           o == OpenCall(manifestFs'[e], dst)
           after == IF o.err # "nil" THEN [data |-> <<>>, end |-> o.err]
                    ELSE ReadAll(o.manifest, shardsFs', 0)
       IN StatIsFile(manifestFs[e], src) =>
            /\ ret'.err = "nil"
            /\ after = Content(e, src)
            /\ after.end = "EOF"
            /\ StatIsFile(manifestFs'[e], dst)
            /\ Stat(manifestFs'[e], dst).size = Stat(manifestFs[e], src).size
            /\ ShardCount' = ShardCount]_vars

\* a/b is a copy of a file of more than a chunk.
C14_Witness ==
  /\ ret.op = "Copy" /\ ret.err = "nil"
  /\ StatIsFile(manifestFs["A"], PA)
  /\ Content("A", PAB) = Content("A", PA)
  /\ Len(Content("A", PA).data) > ChunkSize

\* ------------------------------------------------- the hash specification
\* The append specification with Hash of PA (and of the missing path PB)
\* whenever no writer is open: files of one writer and files that a second
\* writer appended to, whose chunks differ in size.

HashFile ==
  /\ NoneOpen
  /\ \/ \E path \in {PA, PB} : HashStep("A", path, "sha256")
     \/ HashStep("A", PA, "md5")

NextHash ==
  \/ NextAppend
  \/ HashFile

SpecHash == Init /\ [][NextHash]_vars

\* C15: Hash(p, "sha256") of a file that reads to the end is the SHA-256 of
\* the bytes read, and a Hash call right after another of the same path
\* returns the same digest.
C15_Hash ==
  /\ [](\A path \in {PA, PB} :
         Content("A", path).end = "EOF" =>
           Hash(manifestFs["A"], shardsFs, path, "sha256")
             = [hash |-> Sha256Hex(Content("A", path).data), err |-> "nil"])
  /\ [][(ret.op = "Hash" /\ ret'.op = "Hash" /\ ret.err = "nil"
           /\ ret'.id[2] = ret.id[2] /\ ret'.err # "unsupported")
          => ret' = ret]_vars

\* The digest just returned is that of a file of three chunks of different
\* sizes, the last two appended.
C15_Witness ==
  /\ ret.op = "Hash" /\ ret.err = "nil"
  /\ ret.id[3] = Sha256Hex(Content("A", PA).data)
  /\ OpenCall(manifestFs["A"], PA).err = "nil"
  /\ LET m == OpenCall(manifestFs["A"], PA).manifest IN
       /\ Len(m.chunkSizes) = 3
       /\ m.chunkSizes[1] < m.chunkSizes[2]
       /\ m.chunkSizes[3] < m.chunkSizes[2]

\* ------------------------------------------------- the stat specification
\* No failure.  Writer 1 creates a or a/b; writer 2 opens either path with
\* any flag, before or after writer 1 has closed.  Each is handed up to
\* MaxFile bytes in any split.

StatPaths == {PA, PAB}

StatOpenFile ==
  \/ \E path \in StatPaths : OpenFile(1, "A", path, "create", NoFault)
  \/ \E path \in StatPaths, flag \in Flags :
       OpenFile(2, "A", path, flag, NoFault)

StatWrite ==
  \E w \in WriterIds :
    \E p \in NsPayloads :
      /\ Len(writers[w].accepted) + Len(p) <= MaxFile
      /\ Write(w, p, NoFault)

StatClose == \E w \in WriterIds : Close(w, NoFault)

NextStat ==
  \/ StatOpenFile
  \/ StatWrite
  \/ StatClose

SpecStat == Init /\ [][NextStat]_vars

\* The size the file had when writer w was opened, if w was seeded with it.
PriorSize(w) ==
  IF FlagAppend(w.flag) /\ w.pre.stat.err = "nil" /\ ~w.pre.stat.isDir
    THEN w.pre.stat.size
  ELSE 0

\* C16: right after a successful Close of a writer on path p, Stat(p) is a
\* file entry named by the last element of p whose size is the bytes the
\* writer accepted plus, for an append writer, the size the file had.
C16_StatAfterClose ==
  (ret.op = "Close" /\ ret.err = "nil") =>
    LET w == writers[ret.id] IN
    Stat(manifestFs[w.engine], w.path)
      = [err |-> "nil", name |-> w.path[Len(w.path)],
         size |-> Len(w.accepted) + PriorSize(w), isDir |-> FALSE]

\* An append writer has just closed a/b, which held a byte or more and now
\* holds more than a chunk.
C16_Witness ==
  /\ ret.op = "Close" /\ ret.err = "nil"
  /\ LET w == writers[ret.id] IN
       /\ w.path = PAB
       /\ FlagAppend(w.flag)
       /\ PriorSize(w) > 0
       /\ Len(w.accepted) > 0
       /\ Stat(manifestFs["A"], PAB).size > ChunkSize

\* C17: right after a Remove of a path that returned nil, Stat of the path
\* fails.
C17_RemovedIsGone ==
  (ret.op = "Remove" /\ ret.err = "nil") =>
    Stat(manifestFs[ret.id[1]], ret.id[2]).err # "nil"

\* C18: a Rename(old, new) of a file to another path that returned nil leaves
\* Stat(old) failing, new a file of the size and the bytes old had, the
\* parent directory of new in place and the shard store as it was.
C18_Rename ==
  [][(ret'.op = "Rename" /\ ret'.err = "nil") =>
       LET e == ret'.id[1]
           old == ret'.id[2]
           new == ret'.id[3]
           o == OpenCall(manifestFs'[e], new)
           after == IF o.err # "nil" THEN [data |-> <<>>, end |-> o.err]
                    ELSE ReadAll(o.manifest, shardsFs', 0)
       IN (StatIsFile(manifestFs[e], old) /\ cleanPath(old) # cleanPath(new)) =>
            /\ Stat(manifestFs'[e], old).err # "nil"
            /\ StatIsFile(manifestFs'[e], new)
            /\ Stat(manifestFs'[e], new).size = Stat(manifestFs[e], old).size
            /\ after = Content(e, old)
            /\ FsIsDir(manifestFs'[e], Dir(manifestPath(new)))
            /\ shardsFs' = shardsFs]_vars

\* -------------------------------------------- the directory specification
\* No failure.  Engine A with the paths a, b and a/b: two writers create a
\* file of more than a chunk and a file of a byte, directories are made, paths removed, a
\* file that is no descriptor turns up in a mirror directory, and
\* directories are listed.

DirOpenFile ==
  /\ NoneOpen
  /\ \E w \in {1, 2}, path \in TreePaths :
       OpenFile(w, "A", path, "create", NoFault)

\* A file of the manifest store that the engine did not write.
Stray == <<"c">>

\* Something else puts the file into a mirror directory that exists.
PutStray ==
  /\ NoneOpen
  /\ \E path \in {<<>>, PA} :
       LET mDir == manifestDirPath(path) IN
       /\ FsIsDir(manifestFs["A"], mDir)
       /\ ~FsExists(manifestFs["A"], Append(mDir, Stray))
       /\ manifestFs' = [manifestFs EXCEPT
                           !["A"] = FsWriteFile(@, Append(mDir, Stray),
                                                PartialJson)]
  /\ ret' = Ret("PutStray", 0, "nil")
  /\ UNCHANGED <<shardsFs, writers, readers, registry, bufferPool>>

DirRemove ==
  NoneOpen /\ \E path \in {PA, PAB} : Remove("A", path, NoFault)

DirMkdirAll == NoneOpen /\ \E path \in {PA, PB} : MkdirAll("A", path, NoFault)

DirReadDir ==
  NoneOpen /\ \E path \in {<<>>, PA, PB} : ReadDirStep("A", path)

NextDir ==
  \/ DirOpenFile
  \/ TreeWrite
  \/ TreeClose
  \/ PutStray
  \/ DirRemove
  \/ DirMkdirAll
  \/ DirReadDir

SpecDir == Init /\ [][NextDir]_vars

\* What is directly in the mirror directory mDir.
Children(mfs, mDir) ==
  {c \in mfs.dirs \cup DOMAIN mfs.files : c # <<>> /\ Dir(c) = mDir}

\* The entries ReadDir(path) is to return: one per subdirectory and one per
\* descriptor, with the size its manifest records.
Listing(mfs, path) ==
  LET mDir == manifestDirPath(path) IN
  {EntryInfo(Base(c), 0, TRUE, Join(path, <<Base(c)>>)) :
     c \in {k \in Children(mfs, mDir) : FsIsDir(mfs, k)}}
  \cup
  {EntryInfo(TrimSuffixJson(Base(c)), Unmarshal(mfs.files[c]).size, FALSE,
             Join(path, <<TrimSuffixJson(Base(c))>>)) :
     c \in {k \in Children(mfs, mDir) :
              FsIsFile(mfs, k) /\ HasSuffixJson(Base(k))}}

\* C19: ReadDir of a directory returns one directory entry for each
\* subdirectory and one file entry for each descriptor directly in it, named
\* without the suffix and with the size of the manifest, and nothing else; for
\* a mirror directory that does not exist it returns the empty list at the
\* root and not-found elsewhere.
C19_ReadDir ==
  ret.op = "ReadDir" =>
    LET mfs == manifestFs[ret.id[1]]
        path == ret.id[2]
        r == ReadDir(mfs, path)
    IN
    /\ ret.err = r.err
    /\ IF FsIsDir(mfs, manifestDirPath(path))
         THEN /\ r.err = "nil"
              /\ {r.entries[i] : i \in 1..Len(r.entries)} = Listing(mfs, path)
              /\ Len(r.entries) = Cardinality(Listing(mfs, path))
       ELSE IF cleanPath(path) = <<>>
         THEN r = [err |-> "nil", entries |-> <<>>]
       ELSE r.err = "notexist"

\* The directory a that was just listed holds the file a/b of more than a
\* chunk and a file that is no descriptor; the root holds the file a, the
\* directory a and the directory b.
C19_Witness ==
  /\ ret.op = "ReadDir" /\ ret.id[2] = PA /\ ret.err = "nil"
  /\ FsExists(manifestFs["A"], Append(manifestDirPath(PA), Stray))
  /\ Len(ReadDir(manifestFs["A"], PA).entries) = 1
  /\ ReadDir(manifestFs["A"], PA).entries[1].size > ChunkSize
  /\ Len(ReadDir(manifestFs["A"], <<>>).entries) = 3

\* ------------------------------------------------- the walk specification
\* The directory specification with Walk from the root, a and b at any point
\* while no writer is open.

DirWalk == NoneOpen /\ \E root \in {<<>>, PA, PB} : WalkStep("A", root, FnNil)

NextWalk ==
  \/ NextDir
  \/ DirWalk

SpecWalk == Init /\ [][NextWalk]_vars

\* The files and directories strictly beneath root, as <<path, isDir>>: the
\* directories and the descriptors of the mirror tree of root.
Beneath(mfs, root) ==
  LET mDir == manifestDirPath(root)
      below == {c \in mfs.dirs \cup DOMAIN mfs.files :
                  c # mDir /\ Under(mDir, c)}
  IN
  {<<Tail(c), TRUE>> : c \in {k \in below : FsIsDir(mfs, k)}}
  \cup
  {<<Append(Dir(Tail(c)), TrimSuffixJson(Base(c))), FALSE>> :
     c \in {k \in below : FsIsFile(mfs, k) /\ HasSuffixJson(Base(k))}}

\* What Walk(root) is to visit: root, and what is beneath it when Stat(root)
\* succeeds.
Visits(mfs, root) ==
  {<<cleanPath(root), Stat(mfs, root).err = "nil" /\ Stat(mfs, root).isDir>>}
  \cup (IF Stat(mfs, root).err = "nil" THEN Beneath(mfs, root) ELSE {})

\* C20: a Walk whose function always returns nil returns nil, has called the
\* function once for the root and once for every file and directory beneath
\* it, and for a directory before anything beneath that directory.
C20_Walk ==
  ret.op = "Walk" =>
    LET mfs == manifestFs[ret.id[1]]
        root == ret.id[2]
        r == Walk(mfs, root, FnNil)
        n == Len(r.calls)
        seen == {<<cleanPath(r.calls[i].path), r.calls[i].isDir>> : i \in 1..n}
    IN
    /\ ret.err = "nil"
    /\ seen = Visits(mfs, root)
    /\ n = Cardinality(seen)
    /\ \A i \in 1..n, j \in 1..n :
         (/\ r.calls[i].isDir
          /\ r.calls[i].path # r.calls[j].path
          /\ Under(cleanPath(r.calls[i].path), cleanPath(r.calls[j].path)))
           => i < j

\* ------------------------------------------------- the skip specification
\* The tree of the directory specification, walked from the root and from a
\* with functions that answer SkipDir for a directory, fail at a file or a
\* directory, or both.

WalkFns ==
  {[skip |-> {<<PA, TRUE>>}, fail |-> {}],
   [skip |-> {<<PB, TRUE>>}, fail |-> {}],
   [skip |-> {<<<<>>, TRUE>>}, fail |-> {}],
   [skip |-> {<<PA, TRUE>>}, fail |-> {<<PB, TRUE>>}],
   [skip |-> {}, fail |-> {<<PAB, FALSE>>}],
   [skip |-> {}, fail |-> {<<PA, FALSE>>}]}

SkipWalk ==
  /\ NoneOpen
  /\ \E root \in {<<>>, PA}, fn \in WalkFns : WalkStep("A", root, fn)

NextSkip ==
  \/ DirOpenFile
  \/ TreeWrite
  \/ TreeClose
  \/ DirRemove
  \/ DirMkdirAll
  \/ SkipWalk

SpecSkip == Init /\ [][NextSkip]_vars

\* C21: when the function answers SkipDir for a directory, it is never called
\* for anything beneath that directory, every entry of a directory that was
\* not skipped is still visited, and Walk returns nil, never SkipDir; an error
\* of the function ends the walk at that call and is what Walk returns.
C21_SkipDir ==
  ret.op = "Walk" =>
    LET mfs == manifestFs[ret.id[1]]
        root == ret.id[2]
        fn == ret.id[3]
        r == Walk(mfs, root, fn)
        n == Len(r.calls)
        at(i) == <<r.calls[i].path, r.calls[i].isDir>>
    IN
    /\ ret.err = r.err
    /\ r.err \in {"nil", "failed"}
    /\ \A i \in 1..n, j \in 1..n :
         ~(/\ at(i) \in fn.skip
           /\ r.calls[j].path # r.calls[i].path
           /\ Under(cleanPath(r.calls[i].path), cleanPath(r.calls[j].path)))
    /\ r.err = "nil" =>
         \A i \in 1..n :
           (r.calls[i].isDir /\ at(i) \notin fn.skip) =>
             LET entries == ReadDir(mfs, r.calls[i].path).entries IN
             \A k \in 1..Len(entries) :
               \E j \in (i + 1)..n :
                 r.calls[j] = WalkCall(entries[k].path, entries[k].isDir, "nil")
    /\ r.err = "failed" <=> (\E i \in 1..n : at(i) \in fn.fail)
    /\ r.err = "failed" =>
         /\ at(n) \in fn.fail
         /\ \A i \in 1..(n - 1) : at(i) \notin fn.fail

\* The walk from the root skipped the directory a, which holds a/b, and went
\* on to b.
C21_Witness ==
  /\ ret.op = "Walk" /\ ret.err = "nil"
  /\ ret.id[2] = <<>>
  /\ ret.id[3] = [skip |-> {<<PA, TRUE>>}, fail |-> {}]
  /\ Len(ReadDir(manifestFs["A"], PA).entries) > 0
  /\ LET r == Walk(manifestFs["A"], <<>>, ret.id[3]) IN
       \E i \in 1..Len(r.calls), j \in 1..Len(r.calls) :
         /\ i < j
         /\ r.calls[i] = WalkCall(PA, TRUE, "nil")
         /\ r.calls[j].path = PB

\* ------------------------------------------------- the seek specification
\* No failure.  Writer 1 creates PA; once it has closed, writer 2 opens PA to
\* append.  Each is handed bytes and asked to seek, with every whence, to
\* every offset from -1 to one past MaxFile.

Whences == {"start", "current", "end", "other"}

SeekOffsets == (0 - 1)..(MaxFile + 1)

SeekOpenFile ==
  \/ OpenFile(1, "A", PA, "create", NoFault)
  \/ /\ writers[1].st = "closed"
     /\ OpenFile(2, "A", PA, "append", NoFault)

SeekWrite ==
  \E w \in WriterIds :
    \E p \in NsPayloads :
      /\ Len(writers[w].accepted) + Len(p) <= MaxFile - 1
      /\ Write(w, p, NoFault)

SeekClose == Close(1, NoFault)

SeekWriter ==
  \E w \in WriterIds, offset \in SeekOffsets, whence \in Whences :
    WSeek(w, offset, whence)

NextSeek ==
  \/ SeekOpenFile
  \/ SeekWrite
  \/ SeekClose
  \/ SeekWriter

SpecSeek == Init /\ [][NextSeek]_vars

\* C22: a Seek of a writer returns the offset when whence is start and the
\* offset is the size of the writer, fails with ErrNotSupported for every
\* other offset and whence, and never changes the writer.
C22_WriterSeek ==
  [][ret'.op = "WSeek" =>
       LET w == ret'.id[1]
           offset == ret'.id[2]
           whence == ret'.id[3]
           n == ret'.id[4]
       IN
       /\ (whence = "start" /\ offset = writers[w].size)
            => (ret'.err = "nil" /\ n = offset)
       /\ ~(whence = "start" /\ offset = writers[w].size)
            => ret'.err = ErrNotSupported
       /\ writers'[w] = writers[w]]_vars

\* ------------------------------------------ the reader seek specification
\* No failure.  Writer 1 creates PA with one Write of 1..MaxFile bytes; a
\* reader opens it, reads up to a chunk at a time and seeks, with every
\* whence, to every offset from -(MaxFile + 1) to MaxFile + 1.

RSeekSetup ==
  \/ OpenFile(1, "A", PA, "create", NoFault)
  \/ /\ writers[1].accepted = <<>>
     /\ \E p \in NsPayloads : Write(1, p, NoFault)
  \/ Close(1, NoFault)

RSeekOpen == writers[1].st = "closed" /\ Open(1, "A", PA)

RSeekRead == \E n \in 1..ChunkSize : Read(1, n)

RSeekSeek ==
  \E offset \in (0 - MaxFile - 1)..(MaxFile + 1), whence \in Whences :
    RSeek(1, offset, whence)

NextRSeek ==
  \/ RSeekSetup
  \/ RSeekOpen
  \/ RSeekRead
  \/ RSeekSeek

SpecRSeek == Init /\ [][NextRSeek]_vars

\* C23: a Seek of a reader to a target in [0, size], counted from the start,
\* the current offset or the end, sets the offset to the target and returns
\* it; every other Seek fails with ErrInvalid and leaves the offset; the
\* offset of an open reader is always in [0, size].
C23_ReaderSeek ==
  /\ [](\A r \in ReaderIds :
         readers[r].st = "open" =>
           readers[r].offset \in 0..readers[r].manifest.size)
  /\ [][ret'.op = "RSeek" =>
         LET id == ret'.id[1]
             how == ret'.id[3]
             target == SeekTarget(readers[id], ret'.id[2], how)
         IN
         IF how \in {"start", "current", "end"}
            /\ target \in 0..readers[id].manifest.size
           THEN /\ ret'.err = "nil"
                /\ ret'.id[4] = target
                /\ readers'[id].offset = target
         ELSE /\ ret'.err = ErrInvalid
              /\ readers'[id].offset = readers[id].offset]_vars

\* ------------------------------------------- the truncation specification
\* Two writers, one after the other, create PA with one Write of MaxFile
\* bytes; the write of the first shard file may stop after a byte.  A shard
\* file may get lost from the shard store.  Then a reader opens PA and reads.

TruncOpenFile ==
  /\ Quiet
  /\ \E w \in {1, 2} : OpenFile(w, "A", PA, "create", NoFault)

TruncWrite ==
  \E w \in {1, 2} :
    /\ writers[w].accepted = <<>>
    /\ ~writers[w].werr
    /\ \E fault \in {NoFault, Fault(1, "short", 1)} :
         Write(w, Take(Pattern, MaxFile), fault)

TruncClose == \E w \in {1, 2} : Close(w, NoFault)

\* Something else removes a file of the shard store.
LoseShard ==
  /\ Quiet
  /\ \E sp \in DOMAIN shardsFs.files :
       shardsFs' = [shardsFs EXCEPT !.files = FsDropFiles(@, {sp})]
  /\ ret' = Ret("LoseShard", 0, "nil")
  /\ UNCHANGED <<manifestFs, writers, readers, registry, bufferPool>>

TruncOpen == NoneOpen /\ Open(1, "A", PA)

TruncRead == \E n \in 1..(ChunkSize + 1) : Read(1, n)

NextTrunc ==
  \/ TruncOpenFile
  \/ TruncWrite
  \/ TruncClose
  \/ LoseShard
  \/ TruncOpen
  \/ TruncRead

SpecTrunc == Init /\ [][NextTrunc]_vars

\* The byte at offset of the file of manifest m is not there: no chunk holds
\* the offset, or the shard file of the chunk is missing or ends before it.
MissingAt(m, sfs, offset) ==
  LET c == Resolve(m, offset) IN
  \/ c.idx = 0
  \/ c.idx > Len(m.chunks)
  \/ ~FsIsFile(sfs, shardPath(m.chunks[c.idx]))
  \/ Len(sfs.files[shardPath(m.chunks[c.idx])]) <= c.off

\* C24: a Read at an offset below the size whose byte is not there fails with
\* io.ErrUnexpectedEOF.
C24_Truncated ==
  [][ret'.op = "Read" =>
       LET rd == readers[ret'.id[1]] IN
       (/\ rd.offset < rd.manifest.size
        /\ MissingAt(rd.manifest, shardsFs, rd.offset))
         => ret'.err = "unexpectedEOF"]_vars

\* --------------------------------------------- the legacy specification
\* A writer creates PA with one Write; the manifest may then be put into the
\* older format, which has no chunk_sizes; a reader opens PA, reads and seeks.

LegOpenFile == Quiet /\ OpenFile(1, "A", PA, "create", NoFault)

LegWrite ==
  /\ writers[1].accepted = <<>>
  /\ \E p \in NsPayloads : Write(1, p, NoFault)

LegClose == Close(1, NoFault)

\* The manifest of PA as the older format holds it: chunk_sizes left out.
StripSizes ==
  LET mPath == manifestPath(PA) IN
  /\ Quiet
  /\ FsIsFile(manifestFs["A"], mPath)
  /\ manifestFs["A"].files[mPath].hasSizes
  /\ manifestFs' = [manifestFs EXCEPT !["A"].files[mPath] =
                      [@ EXCEPT !.hasSizes = FALSE, !.chunkSizes = <<>>]]
  /\ ret' = Ret("StripSizes", 0, "nil")
  /\ UNCHANGED <<shardsFs, writers, readers, registry, bufferPool>>

LegOpen == NoneOpen /\ Open(1, "A", PA)

LegRead == \E n \in 1..(ChunkSize + 1) : Read(1, n)

LegSeek ==
  \E offset \in 0..MaxFile, whence \in {"start", "current", "end"} :
    RSeek(1, offset - (IF whence = "start" THEN 0 ELSE ChunkSize), whence)

NextLeg ==
  \/ LegOpenFile
  \/ LegWrite
  \/ LegClose
  \/ StripSizes
  \/ LegOpen
  \/ LegRead
  \/ LegSeek

SpecLeg == Init /\ [][NextLeg]_vars

\* The manifest m with the sizes of uniform chunks and a tail filled in.
Explicit(m) ==
  IF Len(m.chunkSizes) > 0 THEN m
  ELSE [m EXCEPT !.chunkSizes =
          [i \in 1..Len(m.chunks) |->
             IF i < Len(m.chunks) THEN ChunkSize
             ELSE m.size - (i - 1) * ChunkSize]]

\* C25: every Read and Seek of a reader on a manifest without chunk_sizes
\* (uniform chunks and a tail) returns the bytes, the offset and the error
\* that the same call returns on the manifest with the sizes filled in.
C25_Legacy ==
  [][/\ ret'.op = "Read" =>
          LET rd == readers[ret'.id[1]]
              c == ReadCall(Explicit(rd.manifest), shardsFs, rd.offset,
                            ret'.id[2])
          IN /\ readers'[ret'.id[1]].offset = c.offset
             /\ readers'[ret'.id[1]].got = rd.got \o c.data
             /\ ret'.id[3] = Len(c.data)
             /\ ret'.err = c.err
     /\ ret'.op = "RSeek" =>
          LET rd == readers[ret'.id[1]]
              c == ReaderSeek([rd EXCEPT !.manifest = Explicit(@)],
                              ret'.id[2], ret'.id[3])
          IN /\ readers'[ret'.id[1]].offset = c.offset
             /\ ret'.id[4] = c.n
             /\ ret'.err = c.err]_vars

\* A reader on a manifest without sizes, of a full chunk and a tail, has
\* just read the tail after a Seek into it.
C25_Witness ==
  /\ ret.op = "Read" /\ ret.err = "nil" /\ ret.id[3] > 0
  /\ readers[1].manifest.chunkSizes = <<>>
  /\ Len(readers[1].manifest.chunks) = 2
  /\ readers[1].manifest.size = ChunkSize + 1
  /\ readers[1].from = ChunkSize
  /\ readers[1].offset = readers[1].manifest.size

\* ------------------------------------------- the registry specification
\* Goroutines call Register and Open of the package at will.  Register takes
\* mu, looks the name up, panics or stores the factory, and releases mu (the
\* deferred Unlock runs on a panic too); each of these is a step.  A panic is
\* recovered by the caller, who may go on calling.

EngineVars == <<manifestFs, shardsFs, writers, readers, bufferPool>>

\* Register(name, factory) is called; the factory is named after the call.
RegisterCall(g, name) ==
  /\ registry.pc[g] = "idle"
  /\ registry.calls[g] < MaxCalls
  /\ registry' = [registry EXCEPT
                    !.pc[g] = "lock",
                    !.calls[g] = @ + 1,
                    !.arg[g] = [name |-> name,
                                factory |-> <<g, registry.calls[g] + 1>>]]
  /\ UNCHANGED <<EngineVars, ret>>

\* A Register that goes on without waiting for mu.
RegisterLockFree(g) ==
  /\ registry.pc[g] = "lock"
  /\ registry' = [registry EXCEPT !.mu = g, !.pc[g] = "check"]
  /\ UNCHANGED <<EngineVars, ret>>

\* mu.Lock()
RegisterLock(g) ==
  /\ registry.pc[g] = "lock"
  /\ registry.mu = 0
  /\ registry' = [registry EXCEPT !.mu = g, !.pc[g] = "check"]
  /\ UNCHANGED <<EngineVars, ret>>

\* if _, exists := factories[name]; exists { panic(...) }
RegisterCheck(g) ==
  /\ registry.pc[g] = "check"
  /\ IF registry.factories[registry.arg[g].name] # NoFactory
       THEN /\ registry' = [registry EXCEPT !.mu = 0, !.pc[g] = "idle"]
            /\ ret' = Ret("Register",
                          <<g, registry.arg[g].name, registry.arg[g].factory>>,
                          "panic")
     ELSE /\ registry' = [registry EXCEPT !.pc[g] = "store"]
          /\ UNCHANGED ret
  /\ UNCHANGED EngineVars

\* factories[name] = factory
RegisterStore(g) ==
  /\ registry.pc[g] = "store"
  /\ registry' = [registry EXCEPT
                    !.factories[registry.arg[g].name] = registry.arg[g].factory,
                    !.took = Append(@, registry.arg[g]),
                    !.pc[g] = "unlock"]
  /\ UNCHANGED <<EngineVars, ret>>

\* the deferred mu.Unlock() and the return
RegisterUnlock(g) ==
  /\ registry.pc[g] = "unlock"
  /\ registry' = [registry EXCEPT !.mu = 0, !.pc[g] = "idle"]
  /\ ret' = Ret("Register",
                <<g, registry.arg[g].name, registry.arg[g].factory>>, "nil")
  /\ UNCHANGED EngineVars

\* sbox.Open(cfg) up to the call of the factory: the lookup under mu.RLock(),
\* which waits while a Register holds mu.
OpenDriver(g, name) ==
  /\ registry.pc[g] = "idle"
  /\ registry.mu = 0
  /\ ret' = Ret("OpenDriver", <<g, name, registry.factories[name]>>,
                IF registry.factories[name] = NoFactory THEN "unknown driver"
                ELSE "nil")
  /\ UNCHANGED <<EngineVars, registry, bufferPool>>

RegCall == \E g \in Goroutines, name \in DriverNames : RegisterCall(g, name)
RegLock == \E g \in Goroutines : RegisterLock(g)
RegCheck == \E g \in Goroutines : RegisterCheck(g)
RegStore == \E g \in Goroutines : RegisterStore(g)
RegUnlock == \E g \in Goroutines : RegisterUnlock(g)
RegOpen == \E g \in Goroutines, name \in DriverNames : OpenDriver(g, name)

NextReg ==
  \/ RegCall
  \/ RegLock
  \/ RegCheck
  \/ RegStore
  \/ RegUnlock
  \/ RegOpen

SpecReg == Init /\ [][NextReg]_vars

\* The assignments to the map that were made for a name.
TookFor(name) ==
  {i \in 1..Len(registry.took) : registry.took[i].name = name}

\* C26: a Register for a name that is in the map panics and leaves the map
\* as it is; a name in the map keeps its factory for ever; and however the
\* Register calls for a name interleave, one of them at most stores its
\* factory, the first, and once a call for the name has returned the map
\* holds that factory.
C26_Registry ==
  /\ [](\A name \in DriverNames :
          /\ Cardinality(TookFor(name)) <= 1
          /\ registry.factories[name] # NoFactory =>
               /\ TookFor(name) # {}
               /\ \A i \in TookFor(name) :
                    registry.took[i].factory = registry.factories[name]
          /\ (ret.op = "Register" /\ ret.id[2] = name) =>
               /\ registry.factories[name] # NoFactory
               /\ ret.err = "nil" => registry.factories[name] = ret.id[3])
  /\ [][/\ \A name \in DriverNames :
            registry.factories[name] # NoFactory =>
              registry'.factories[name] = registry.factories[name]
        /\ \A g \in Goroutines :
            (/\ registry.pc[g] = "check"
             /\ registry'.pc[g] # "check"
             /\ registry.factories[registry.arg[g].name] # NoFactory) =>
              /\ ret' = Ret("Register",
                            <<g, registry.arg[g].name, registry.arg[g].factory>>,
                            "panic")
              /\ registry'.factories = registry.factories
        /\ (ret'.op = "Register" /\ ret'.err = "panic" /\ ret' # ret) =>
              /\ registry.factories[ret'.id[2]] # NoFactory
              /\ registry.factories[ret'.id[2]] # ret'.id[3]
              /\ registry'.factories = registry.factories]_vars

\* Two goroutines have called Register for one name; the first took effect,
\* the second has panicked, and the map holds the first factory.
C26_Witness ==
  /\ ret = Ret("Register", <<2, "sharded", <<2, 1>>>>, "panic")
  /\ registry.factories["sharded"] = <<1, 1>>
  /\ registry.took = <<[name |-> "sharded", factory |-> <<1, 1>>]>>
  /\ registry.calls = [g \in Goroutines |-> 1]

\* ------------------------------------------------------ chunk sizes

\* Every size but the last is the chunk size, the last is in 1..ChunkSize.
Uniform(sizes) ==
  \A i \in 1..Len(sizes) :
    IF i < Len(sizes) THEN sizes[i] = ChunkSize ELSE sizes[i] \in 1..ChunkSize

\* The manifests that are stored, over all engines.
StoredManifests ==
  UNION {{Unmarshal(manifestFs[e].files[p]) :
            p \in {q \in DOMAIN manifestFs[e].files :
                     UnmarshalOk(manifestFs[e].files[q])}} :
         e \in Engines}

C28_ContentAddressed ==
  \A m \in StoredManifests :
    \A i \in 1..Len(m.chunks) :
      FsIsFile(shardsFs, shardPath(m.chunks[i])) =>
        Sha256Hex(shardsFs.files[shardPath(m.chunks[i])]) = m.chunks[i]

\* ------------------------------------------ the closed-handle specification
\* shardedWriter keeps no mark of having been closed: Write, Seek and Close
\* of a writer whose Close has returned run the code they run before it, on
\* the fields that Close left (the hashes, the sizes, the size, no buffer).

WriteClosed(w, p) ==
  /\ writers[w].st = "closed"
  /\ LET r == WriteCall(writers[w], shardsFs, p, NoFault) IN
     /\ writers' = [writers EXCEPT ![w] = r.w]
     /\ shardsFs' = r.sfs
     /\ ret' = Ret("Write", w, r.err)
  /\ UNCHANGED <<manifestFs, readers, registry, bufferPool>>

SeekClosed(w, offset, whence) ==
  /\ writers[w].st = "closed"
  /\ LET c == WriterSeek(writers[w], offset, whence) IN
     ret' = Ret("WSeek", <<w, offset, whence, c.n>>, c.err)
  /\ UNCHANGED <<manifestFs, shardsFs, writers, readers, registry, bufferPool>>

CloseClosed(w) ==
  /\ writers[w].st = "closed"
  /\ LET e == writers[w].engine
         r == CloseCall(writers[w], manifestFs[e], shardsFs, NoFault)
     IN
     /\ writers' = [writers EXCEPT ![w] = r.w]
     /\ manifestFs' = [manifestFs EXCEPT ![e] = r.mfs]
     /\ shardsFs' = r.sfs
     /\ ret' = Ret("Close", w, r.err)
  /\ UNCHANGED <<readers, registry, bufferPool>>

\* One writer creates PA, writes and closes; PA may be removed; the closed
\* writer is then used again.
ClosedOpenFile == OpenFile(1, "A", PA, "create", NoFault)

ClosedWrite ==
  /\ writers[1].accepted = <<>>
  /\ \E p \in NsPayloads : Write(1, p, NoFault)

ClosedClose == Close(1, NoFault)

ClosedRemove == NoneOpen /\ Remove("A", PA, NoFault)

ClosedAgainWrite ==
  \E p \in NsPayloads :
    /\ writers[1].size + Len(p) <= MaxFile + ChunkSize
    /\ WriteClosed(1, p)

ClosedAgainSeek ==
  \E offset \in 0..MaxFile, whence \in {"start", "end"} :
    SeekClosed(1, offset, whence)

ClosedAgainClose == CloseClosed(1)

NextClosed ==
  \/ ClosedOpenFile
  \/ ClosedWrite
  \/ ClosedClose
  \/ ClosedRemove
  \/ ClosedAgainWrite
  \/ ClosedAgainSeek
  \/ ClosedAgainClose

SpecClosed == Init /\ [][NextClosed]_vars

\* C29: a Write, Seek or Close of a writer whose Close has returned fails
\* with ErrClosed and leaves the manifest store and the shard store alone.
C29_ClosedHandle ==
  [][(/\ ret'.op \in {"Write", "WSeek", "Close"}
      /\ writers[IF ret'.op = "WSeek" THEN ret'.id[1] ELSE ret'.id].st
           = "closed") =>
       /\ ret'.err = ErrClosed
       /\ manifestFs' = manifestFs
       /\ shardsFs' = shardsFs]_vars

\* ----------------------------------------- the range-read specification
\* Engine.GetRange of the remote adapter.  The object at the path holds data;
\* Open of the object with an fs.RangeOption returns the bytes Start..End
\* (both counted from 0, End included, cut at the end of the object), to the
\* end of the object when End is negative, and all bytes without an option.

RangeOption(start, end) == [Start |-> start, End |-> end]

\* obj.Open(ctx, options...)
ObjectOpen(data, options) ==
  IF Len(options) = 0 THEN data
  ELSE IF options[1].End < 0
    THEN SubSeq(data, options[1].Start + 1, Len(data))
  ELSE SubSeq(data, options[1].Start + 1, Min(options[1].End + 1, Len(data)))

\* Engine.GetRange on an object that is there
GetRange(data, offset, length) ==
  LET options ==
        IF length > 0
          THEN <<RangeOption(offset, offset + length - 1)>>
        ELSE IF offset > 0 THEN <<RangeOption(offset, 0 - 1)>>
        ELSE <<>>
  IN ObjectOpen(data, options)

RangeLengths == (0 - 1)..(MaxFile + 1)

GetRangeStep ==
  \E data \in SeqsUpTo(Byte, MaxFile) :
    \E offset \in 0..Len(data), length \in RangeLengths :
      /\ ret' = Ret("GetRange",
                    <<data, offset, length, GetRange(data, offset, length)>>,
                    "nil")
      /\ UNCHANGED <<EngineVars, registry, bufferPool>>

NextRange == GetRangeStep

SpecRange == Init /\ [][NextRange]_vars

\* C30: GetRange(path, offset, length) on a file of n bytes returns the
\* bytes [offset, min(offset + length, n)) when length >= 0 and the bytes
\* [offset, n) when length < 0.
C30_GetRange ==
  ret.op = "GetRange" =>
    LET data == ret.id[1]
        offset == ret.id[2]
        length == ret.id[3]
    IN ret.id[4] =
         IF length >= 0
           THEN SubSeq(data, offset + 1, Min(offset + length, Len(data)))
         ELSE SubSeq(data, offset + 1, Len(data))

\* ------------------------------------------ the global dedup specification
\* No failure.  Two writers, of either engine, create or append to PA at the
\* same time or one after the other, and write any bytes in any split.

GlobOpenFile ==
  \E w \in {1, 2}, e \in Engines, flag \in {"create", "append"} :
    OpenFile(w, e, PA, flag, NoFault)

GlobWrite ==
  \E w \in {1, 2} :
    \E p \in Payloads(MaxFile - Len(writers[w].accepted)) :
      Write(w, p, NoFault)

GlobClose == \E w \in {1, 2} : Close(w, NoFault)

NextGlob ==
  \/ GlobOpenFile
  \/ GlobWrite
  \/ GlobClose

SpecGlob == Init /\ [][NextGlob]_vars

\* The hashes of the chunks that were flushed: every writer lists the chunks
\* it flushed, after those of the manifest it loaded.
FlushedHashes ==
  UNION {{writers[w].hashes[i] : i \in 1..Len(writers[w].hashes)} :
           w \in WriterIds}

\* C31: the shard store holds one file for each distinct chunk content that
\* was flushed, with those bytes; a Write or Close lists every chunk it
\* flushes, leaves every shard file that is there as it is, adds the files
\* of the new chunks only, and changes nothing in the shard store when the
\* shard files of all its chunks are there already.
C31_GlobalDedup ==
  /\ [](/\ ShardCount = Cardinality(FlushedHashes)
        /\ \A h \in FlushedHashes :
             /\ FsIsFile(shardsFs, shardPath(h))
             /\ Sha256Hex(shardsFs.files[shardPath(h)]) = h)
  /\ [][ret'.op \in {"Write", "Close"} =>
         LET old == writers[ret'.id]
             new == writers'[ret'.id]
             added == SubSeq(new.hashes, Len(old.hashes) + 1, Len(new.hashes))
             p == SubSeq(new.accepted, Len(old.accepted) + 1, Len(new.accepted))
         IN /\ ret'.err = "nil"
            /\ new.hashes = old.hashes \o added
            /\ Len(new.chunkSizes) = Len(new.hashes)
            /\ Len(added) =
                 IF ret'.op = "Write"
                   THEN (Len(old.buffer) + Len(p)) \div ChunkSize
                 ELSE IF Len(old.buffer) > 0 THEN 1 ELSE 0
            /\ \A sp \in DOMAIN shardsFs.files :
                 /\ FsIsFile(shardsFs', sp)
                 /\ shardsFs'.files[sp] = shardsFs.files[sp]
            /\ DOMAIN shardsFs'.files =
                 DOMAIN shardsFs.files \cup
                   {shardPath(added[i]) : i \in 1..Len(added)}
            /\ (\A i \in 1..Len(added) :
                  FsIsFile(shardsFs, shardPath(added[i]))) =>
                 shardsFs' = shardsFs]_vars

\* A writer of engine B has just flushed a chunk whose shard file a writer of
\* engine A had stored: one shard file, listed by both.
C31_Witness ==
  /\ ret.op = "Write" /\ ret.id = 2 /\ ret.err = "nil"
  /\ writers[1].engine = "A" /\ writers[2].engine = "B"
  /\ Len(writers[2].hashes) = 1
  /\ writers[1].hashes = writers[2].hashes
  /\ ShardCount = 1

\* ------------------------------------------- the shard race specification
\* Engines A and B each create PA and write the same chunk.  flush is taken
\* step by step: the existence check, the open of the shard file by
\* afero.WriteFile (which creates or truncates it), the bytes written one by
\* one, and the listing of the chunk.  A reader opens PA at either engine and
\* reads.

RaceChunk == Take(Pattern, ChunkSize)

RaceShard == shardPath(Sha256Hex(RaceChunk))

ShardRaceOpenFile ==
  \/ OpenFile(1, "A", PA, "create", NoFault)
  \/ OpenFile(2, "B", PA, "create", NoFault)

\* Write(RaceChunk) up to the existence check of flush.
FlushBegin(w) ==
  /\ writers[w].st = "open"
  /\ writers[w].pc = "idle"
  /\ writers[w].hashes = <<>>
  /\ shardsFs' = FsMkdirAll(shardsFs, Dir(RaceShard))
  /\ writers' = [writers EXCEPT
                   ![w].buffer = RaceChunk,
                   ![w].pc = IF FsExists(shardsFs, RaceShard) THEN "list"
                             ELSE "create"]
  /\ UNCHANGED <<manifestFs, readers, ret, registry, bufferPool>>

\* afero.WriteFile opens the shard file with O_CREATE|O_TRUNC.
FlushCreate(w) ==
  /\ writers[w].pc = "create"
  /\ shardsFs' = FsWriteFile(shardsFs, RaceShard, <<>>)
  /\ writers' = [writers EXCEPT ![w].pc = "write"]
  /\ UNCHANGED <<manifestFs, readers, ret, registry, bufferPool>>

\* The next byte of the buffer reaches the shard file.
FlushByte(w) ==
  /\ writers[w].pc = "write"
  /\ LET done == Len(shardsFs.files[RaceShard]) IN
     /\ done < Len(writers[w].buffer)
     /\ shardsFs' = FsWriteFile(shardsFs, RaceShard,
                                Take(writers[w].buffer, done + 1))
     /\ writers' = [writers EXCEPT ![w].pc =
                      IF done + 1 = Len(writers[w].buffer) THEN "list"
                      ELSE "write"]
  /\ UNCHANGED <<manifestFs, readers, ret, registry, bufferPool>>

\* The chunk is listed and Write returns.
FlushList(w) ==
  /\ writers[w].pc = "list"
  /\ writers' = [writers EXCEPT
                   ![w].hashes = Append(@, Sha256Hex(writers[w].buffer)),
                   ![w].chunkSizes = Append(@, Len(writers[w].buffer)),
                   ![w].size = @ + Len(writers[w].buffer),
                   ![w].accepted = @ \o writers[w].buffer,
                   ![w].buffer = <<>>,
                   ![w].pc = "idle"]
  /\ ret' = Ret("Write", w, "nil")
  /\ UNCHANGED <<manifestFs, shardsFs, readers, registry, bufferPool>>

ShardRaceBegin == \E w \in {1, 2} : FlushBegin(w)
ShardRaceCreate == \E w \in {1, 2} : FlushCreate(w)
ShardRaceByte == \E w \in {1, 2} : FlushByte(w)
ShardRaceList == \E w \in {1, 2} : FlushList(w)

ShardRaceClose ==
  \E w \in {1, 2} :
    /\ writers[w].pc = "idle"
    /\ writers[w].hashes # <<>>
    /\ Close(w, NoFault)

ShardRaceOpen == \E e \in Engines : Open(1, e, PA)

ShardRaceRead == \E n \in 1..ChunkSize : Read(1, n)

NextShardRace ==
  \/ ShardRaceOpenFile
  \/ ShardRaceBegin
  \/ ShardRaceCreate
  \/ ShardRaceByte
  \/ ShardRaceList
  \/ ShardRaceClose
  \/ ShardRaceOpen
  \/ ShardRaceRead

SpecShardRace == Init /\ [][NextShardRace]_vars

\* C32: whenever the manifest of PA is stored at an engine, a read of PA
\* there gives the whole chunk and then end-of-stream, and every Read of an
\* open reader below the size returns bytes of the chunk without an error.
C32_BenignRace ==
  /\ \A e \in Engines :
       OpenCall(manifestFs[e], PA).err = "nil" =>
         Content(e, PA) = [data |-> RaceChunk, end |-> "EOF"]
  /\ (ret.op = "Read" /\ ret.err # "EOF") =>
       /\ ret.err = "nil"
       /\ ret.id[3] > 0
       /\ IsPrefix(readers[1].got, RaceChunk)

\* ------------------------------------------------------- chunk layout

\* The chunks of content c in their order.
ChunkSeq(c) ==
  [i \in 1..NumChunks(c) |->
     SubSeq(c, (i - 1) * ChunkSize + 1, Min(i * ChunkSize, Len(c)))]

\* The manifest of content c written from nothing.
FreshManifest(c) ==
  Manifest([i \in 1..NumChunks(c) |-> Sha256Hex(ChunkSeq(c)[i])],
           [i \in 1..NumChunks(c) |->
              IF i < NumChunks(c) THEN ChunkSize
              ELSE Len(c) - (NumChunks(c) - 1) * ChunkSize],
           Len(c))

\* C33: when the create writer has closed after Writes of n bytes in all, in
\* whatever split, the stored manifest lists the ceil(n / chunk_size) chunks
\* of the bytes, the sizes [chunk_size, ..., n - (k-1) * chunk_size] and the
\* size n.
C33_FreshLayout ==
  (ret.op = "Close" /\ ret.id = 1 /\ ret.err = "nil") =>
    /\ OpenCall(manifestFs["A"], PA).err = "nil"
    /\ OpenCall(manifestFs["A"], PA).manifest =
         FreshManifest(writers[1].accepted)
    /\ Len(OpenCall(manifestFs["A"], PA).manifest.chunks) =
         (Len(writers[1].accepted) + ChunkSize - 1) \div ChunkSize

\* The create writer has closed after a full chunk and one byte.
C33_Witness ==
  /\ ret.op = "Close" /\ ret.id = 1 /\ ret.err = "nil"
  /\ Len(writers[1].accepted) = ChunkSize + 1
  /\ OpenCall(manifestFs["A"], PA).manifest.chunkSizes = <<ChunkSize, 1>>

\* ------------------------------------- the legacy append specification
\* Writer 1 creates PA with one Write and closes; the manifest is put into
\* the older format, without chunk_sizes; then writer 2 opens PA with the
\* append flag, writes any bytes of at most ChunkSize + 1 in any split, and
\* closes.

LegAppOpenFile ==
  LET mPath == manifestPath(PA) IN
  /\ Quiet
  /\ FsIsFile(manifestFs["A"], mPath)
  /\ ~manifestFs["A"].files[mPath].hasSizes
  /\ Len(manifestFs["A"].files[mPath].chunks) > 0
  /\ OpenFile(2, "A", PA, "append", NoFault)

LegAppWrite ==
  \E p \in Payloads(ChunkSize + 1 - Len(writers[2].accepted)) :
    Write(2, p, NoFault)

LegAppClose == Close(2, NoFault)

NextLegApp ==
  \/ LegOpenFile
  \/ LegWrite
  \/ LegClose
  \/ StripSizes
  \/ LegAppOpenFile
  \/ LegAppWrite
  \/ LegAppClose

SpecLegApp == Init /\ [][NextLegApp]_vars

\* C34: an append writer that has loaded a manifest of n > 0 chunks without
\* chunk_sizes starts with the sizes [chunk_size, ..., size - (n-1) *
\* chunk_size]; when it has written B and closed, the stored manifest begins
\* with the n old hashes, lists one size for each chunk, the sizes add up to
\* its size, and the file reads as the old content followed by B.
C34_LegacyAppend ==
  /\ (ret.op = "OpenFile" /\ ret.id = 2 /\ ret.err = "nil") =>
       LET m == OpenCall(manifestFs["A"], PA).manifest
           n == Len(m.chunks)
       IN /\ m.chunkSizes = <<>>
          /\ writers[2].hashes = m.chunks
          /\ writers[2].size = m.size
          /\ writers[2].chunkSizes =
               [i \in 1..n |->
                  IF i < n THEN ChunkSize ELSE m.size - (n - 1) * ChunkSize]
  /\ (ret.op = "Close" /\ ret.id = 2 /\ ret.err = "nil") =>
       LET m == OpenCall(manifestFs["A"], PA).manifest IN
       /\ OpenCall(manifestFs["A"], PA).err = "nil"
       /\ IsPrefix(writers[1].hashes, m.chunks)
       /\ Len(writers[1].hashes) > 0
       /\ Len(m.chunkSizes) = Len(m.chunks)
       /\ Sum(m.chunkSizes) = m.size
       /\ m.size = Len(writers[1].accepted) + Len(writers[2].accepted)
       /\ Content("A", PA) =
            [data |-> writers[1].accepted \o writers[2].accepted,
             end |-> "EOF"]

\* The append writer loaded a manifest of a full chunk and a tail of one
\* byte without sizes, wrote a chunk and a byte, and has closed.
C34_Witness ==
  /\ ret.op = "Close" /\ ret.id = 2 /\ ret.err = "nil"
  /\ Len(writers[1].accepted) = ChunkSize + 1
  /\ Len(writers[2].accepted) = ChunkSize + 1
  /\ OpenCall(manifestFs["A"], PA).manifest.chunkSizes =
       <<ChunkSize, 1, ChunkSize, 1>>

\* ------------------------------------------- the buffer pool specification
\* The buffer of a writer is a slice of an array of ChunkSize bytes that
\* OpenFile takes from the pool of the engine and Close puts back.  The other
\* specifications leave the array out; here it is kept, with the bytes that
\* earlier writers left in it.  Two writers of engine A create PA and PB, at
\* the same time or one after the other; a Close may fail.

\* sync.Pool.New: make([]byte, e.chunkSize)
NewBuffer == [i \in 1..ChunkSize |-> 0]

\* A checkout that takes the array with all its bytes.
CheckoutWhole(pb) == pb

\* buf = (*pb)[:0]
Checkout(pb) == Take(pb, 0)

\* The array after the bytes p were appended to a buffer of len bytes, the
\* buffer being cut to no bytes (w.buffer[:0]) each time it was flushed.
RECURSIVE PhysWrite(_, _, _)
PhysWrite(arr, len, p) ==
  IF p = <<>> THEN arr
  ELSE PhysWrite([arr EXCEPT ![(len % ChunkSize) + 1] = Head(p)],
                 (len % ChunkSize) + 1, Tail(p))

\* Engine.OpenFile with the buffer that sync.Pool.Get hands out: one that
\* lies in the pool, or a new one.
PoolOpenFile(w, path, pb) ==
  /\ NextFree(writers, w)
  /\ pb \in bufferPool["A"] \cup {NewBuffer}
  /\ LET r == OpenFileCall("A", manifestFs["A"], path, "create", NoFault) IN
     /\ manifestFs' = [manifestFs EXCEPT !["A"] = r.mfs]
     /\ writers' = [writers EXCEPT ![w] =
                      [r.w EXCEPT !.pre = View("A", path), !.pbuf = pb,
                                  !.buffer = Checkout(pb)]]
     /\ ret' = Ret("OpenFile", w, r.err)
  /\ bufferPool' = [bufferPool EXCEPT !["A"] = @ \ {pb}]
  /\ UNCHANGED <<shardsFs, readers, registry>>

PoolWrite(w, p) ==
  /\ writers[w].st = "open"
  /\ writers[w].pbuf # <<>>
  /\ LET r == WriteCall(writers[w], shardsFs, p, NoFault) IN
     /\ writers' = [writers EXCEPT ![w] =
                      [r.w EXCEPT !.pbuf =
                         PhysWrite(@, Len(writers[w].buffer), p)]]
     /\ shardsFs' = r.sfs
     /\ ret' = Ret("Write", w, r.err)
  /\ UNCHANGED <<manifestFs, readers, registry, bufferPool>>

\* shardedWriter.Close: the buffer goes back to the pool once the manifest
\* write was tried, not when flush or MkdirAll failed before it.
PoolClose(w, fault) ==
  /\ writers[w].st = "open"
  /\ LET r == CloseCall(writers[w], manifestFs["A"], shardsFs, fault)
         f == flush(writers[w], shardsFs,
                    IF fault.at = 1 THEN fault ELSE NoFault)
         tried == /\ f.err = "nil"
                  /\ ~(fault.at = 2 /\ fault.kind = "mkdir")
                  /\ FsMkdirAllOk(manifestFs["A"],
                                  Dir(manifestPath(writers[w].path)))
         put == tried /\ writers[w].pbuf # <<>>
     IN
     /\ writers' = [writers EXCEPT ![w] =
                      IF put THEN [r.w EXCEPT !.pbuf = <<>>] ELSE r.w]
     /\ bufferPool' = IF put
                        THEN [bufferPool EXCEPT !["A"] =
                                @ \cup {writers[w].pbuf}]
                      ELSE bufferPool
     /\ manifestFs' = [manifestFs EXCEPT !["A"] = r.mfs]
     /\ shardsFs' = r.sfs
     /\ ret' = Ret("Close", w, r.err)
  /\ UNCHANGED <<readers, registry>>

PoolCloseFaults ==
  {NoFault, Fault(1, "open", 0), Fault(2, "mkdir", 0)}

PoolOpen ==
  \E w \in {1, 2}, pb \in SeqsOfLen(Byte, ChunkSize) :
    PoolOpenFile(w, IF w = 1 THEN PA ELSE PB, pb)

\* The first writer writes ones and the second zeros, so that a byte of the
\* one is told from a byte of the other.
PoolWrites ==
  \E w \in {1, 2} :
    \E n \in 1..(MaxFile - Len(writers[w].accepted)) :
      PoolWrite(w, [i \in 1..n |-> 2 - w])

PoolCloses == \E w \in {1, 2}, fault \in PoolCloseFaults : PoolClose(w, fault)

NextPool ==
  \/ PoolOpen
  \/ PoolWrites
  \/ PoolCloses

SpecPool == Init /\ [][NextPool]_vars

\* Open + io.ReadAll of a path on the stores mfs and sfs.
ContentOf(mfs, sfs, path) ==
  LET o == OpenCall(mfs, path) IN
  IF o.err # "nil" THEN [data |-> <<>>, end |-> o.err]
  ELSE ReadAll(o.manifest, sfs, 0)

\* C35: the chunks that a writer lists and the bytes in its buffer are the
\* bytes it was handed and no others, whatever the array of its buffer held
\* before; and no Write, and no Close that fails without returning the
\* buffer, changes what a stored file reads as.
C35_PoolIsolation ==
  /\ [](\A w \in {1, 2} :
          writers[w].st # "free" =>
            LET c == writers[w].accepted
                k == Len(writers[w].hashes)
                flushed == Sum(writers[w].chunkSizes)
            IN /\ flushed <= Len(c)
               /\ Len(writers[w].chunkSizes) = k
               /\ \A i \in 1..k :
                    LET off == Sum(Take(writers[w].chunkSizes, i - 1)) IN
                    writers[w].hashes[i] =
                      Sha256Hex(SubSeq(c, off + 1,
                                       off + writers[w].chunkSizes[i]))
               /\ writers[w].buffer \in {Drop(c, flushed), <<>>}
               /\ writers[w].st = "open" /\ writers[w].pbuf # <<>> =>
                    writers[w].buffer = Drop(c, flushed))
  /\ [][(\/ ret'.op = "Write"
         \/ /\ ret'.op = "Close"
            /\ ret'.err # "nil"
            /\ writers'[ret'.id].pbuf # <<>>) =>
         \A path \in Paths :
           ContentOf(manifestFs'["A"], shardsFs', path) =
             ContentOf(manifestFs["A"], shardsFs, path)]_vars

\* The first writer filled its array with ones and closed; the second got
\* that array from the pool, wrote one zero and closed: its file is that one
\* byte, and the array is back in the pool with the ones of the first writer
\* behind the zero.
C35_Witness ==
  /\ ret.op = "Close" /\ ret.id = 2 /\ ret.err = "nil"
  /\ writers[1].st = "closed" /\ writers[1].pbuf = <<>>
  /\ writers[1].accepted = [i \in 1..ChunkSize |-> 1]
  /\ writers[2].accepted = <<0>>
  /\ ContentOf(manifestFs["A"], shardsFs, writers[2].path) =
       [data |-> <<0>>, end |-> "EOF"]
  /\ bufferPool["A"] = {[i \in 1..ChunkSize |-> IF i = 1 THEN 0 ELSE 1]}

\* ----------------------------------------- the path-mapping specification
\* manifestPath and manifestDirPath applied to the path strings a caller can
\* hand to the engine: up to MaxElems elements that are ".", ".." or a name,
\* relative or with a leading slash.

MaxElems == 3

PathElems == {Dot, DotDot, <<"a">>, <<"b">>}

PathStrings ==
  LET rel == SeqsUpTo(PathElems, MaxElems) IN
  rel \cup {<<Slash>> \o q : q \in rel}

ManifestPathStep(p) ==
  /\ ret' = Ret("manifestPath", <<p, manifestPath(p)>>, "nil")
  /\ UNCHANGED <<EngineVars, registry>>

ManifestDirPathStep(p) ==
  /\ ret' = Ret("manifestDirPath", <<p, manifestDirPath(p)>>, "nil")
  /\ UNCHANGED <<EngineVars, registry>>

NextCont ==
  \/ \E p \in PathStrings : ManifestPathStep(p)
  \/ \E p \in PathStrings : ManifestDirPathStep(p)

SpecCont == Init /\ [][NextCont]_vars

\* A cleaned path of the manifest store that is manifests or lies beneath it.
UnderManifests(m) ==
  /\ m # <<>>
  /\ Head(m) = ManifestsDir
  /\ \A i \in 1..Len(m) : m[i] # DotDot

\* C36: for every path string, the manifest file and the mirror directory
\* of the path are manifests or lie beneath it, and two path strings with the
\* same cleaned path have the same manifest file and mirror directory.
C36_Containment ==
  ret.op \in {"manifestPath", "manifestDirPath"} =>
    /\ UnderManifests(ret.id[2])
    /\ \A q \in PathStrings :
         cleanPath(q) = cleanPath(ret.id[1]) =>
           /\ manifestPath(q) = manifestPath(ret.id[1])
           /\ manifestDirPath(q) = manifestDirPath(ret.id[1])

\* C37: a Read with a buffer that is not empty, at an offset below the size,
\* returns at least one byte or an error, whatever the shard store holds; so
\* a loop that reads until io.EOF or an error (copyBuffered) comes to an end.
C37_ReadProgress ==
  [][(/\ ret'.op = "Read"
      /\ ret'.id[2] > 0
      /\ readers[ret'.id[1]].offset < readers[ret'.id[1]].manifest.size)
       => (ret'.id[3] > 0 \/ ret'.err # "nil")]_vars

\* C38: a writer none of whose Write calls has failed holds fewer than
\* ChunkSize bytes in its buffer, has one size per hash, and its size is the
\* sum of the sizes plus the bytes in the buffer; a Write that returns nil
\* has taken all its bytes and raises the size by their number.
C38_Accumulator ==
  /\ [](\A w \in WriterIds :
          (writers[w].st = "open" /\ ~writers[w].werr) =>
            /\ Len(writers[w].buffer) < ChunkSize
            /\ Len(writers[w].hashes) = Len(writers[w].chunkSizes)
            /\ writers[w].size =
                 Sum(writers[w].chunkSizes) + Len(writers[w].buffer))
  /\ [][(ret'.op = "Write" /\ ret'.err = "nil") =>
         LET old == writers[ret'.id]
             new == writers'[ret'.id]
         IN /\ Len(new.accepted) > Len(old.accepted)
            /\ new.size = old.size + (Len(new.accepted) - Len(old.accepted))]_vars

\* --------------------------------------- the copy-independence specification
\* Engine A.  Writer 1 creates PA; the file is copied to PB (or back); then
\* either path is overwritten or appended to by writer 2, whose shard and
\* manifest writes may fail, and either path is removed or renamed to a/b.

IndepSetup ==
  \/ OpenFile(1, "A", PA, "create", NoFault)
  \/ /\ writers[1].accepted = <<>>
     /\ \E p \in NsPayloads : Write(1, p, NoFault)
  \/ Close(1, NoFault)

IndepCopy ==
  /\ NoneOpen
  /\ writers[1].st = "closed"
  /\ \E src \in Paths :
       \E dst \in Paths \ {src} : Copy("A", src, dst, NoFault)

IndepOpenFile ==
  /\ writers[1].st = "closed"
  /\ \E path \in Paths, flag \in {"create", "append"} :
       OpenFile(2, "A", path, flag, NoFault)

IndepWrite ==
  /\ ~writers[2].werr
  /\ writers[2].accepted = <<>>
  /\ \E p \in NsPayloads, fault \in {NoFault, Fault(1, "short", 1)} :
       Write(2, p, fault)

IndepClose == \E fault \in {NoFault, Fault(2, "short", 0)} : Close(2, fault)

IndepRemove ==
  /\ NoneOpen
  /\ writers[1].st = "closed"
  /\ \E path \in Paths : Remove("A", path, NoFault)

IndepRename ==
  /\ NoneOpen
  /\ writers[1].st = "closed"
  /\ \E old \in Paths : Rename("A", old, PAB, NoFault)

NextIndep ==
  \/ IndepSetup
  \/ IndepCopy
  \/ IndepOpenFile
  \/ IndepWrite
  \/ IndepClose
  \/ IndepRemove
  \/ IndepRename

SpecIndep == Init /\ [][NextIndep]_vars

\* What Stat and a read to the end give for a path on the stores mfs, sfs.
ViewOf(mfs, sfs, path) ==
  [stat |-> Stat(mfs, path), content |-> ContentOf(mfs, sfs, path)]

\* The chunks of the stored file at path, none when there is no such file.
ChunksAt(mfs, path) ==
  LET o == OpenCall(mfs, path) IN
  IF o.err = "nil" THEN {o.manifest.chunks[i] : i \in 1..Len(o.manifest.chunks)}
  ELSE {}

\* C39: OpenFile, Write and Close of a writer on a path, and Remove and
\* Rename of a path, leave the size and the content read from every other
\* file as they were, also when the two files are copies of one another and
\* have their shards in common.
C39_CopyIndependence ==
  [][LET named ==
           IF ret'.op \in {"OpenFile", "Write", "Close"}
             THEN {writers'[ret'.id].path}
           ELSE IF ret'.op = "Remove" THEN {ret'.id[2]}
           ELSE IF ret'.op = "Rename" THEN {ret'.id[2], ret'.id[3]}
           ELSE Paths
     IN \A z \in Paths \ named :
          StatIsFile(manifestFs["A"], z) =>
            ViewOf(manifestFs'["A"], shardsFs', z) =
              ViewOf(manifestFs["A"], shardsFs, z)]_vars

\* PA was copied to PB and then appended to: PB still reads as the bytes of
\* the first writer, PA as these and the appended ones, and every chunk of
\* PB is a chunk of PA.
C39_Witness ==
  /\ ret.op = "Close" /\ ret.id = 2 /\ ret.err = "nil"
  /\ writers[2].path = PA /\ writers[2].flag = "append"
  /\ Len(writers[1].accepted) > ChunkSize
  /\ ContentOf(manifestFs["A"], shardsFs, PB) =
       [data |-> writers[1].accepted, end |-> "EOF"]
  /\ ContentOf(manifestFs["A"], shardsFs, PA) =
       [data |-> writers[1].accepted \o writers[2].accepted, end |-> "EOF"]
  /\ ChunksAt(manifestFs["A"], PB) # {}
  /\ ChunksAt(manifestFs["A"], PB) \subseteq ChunksAt(manifestFs["A"], PA)

\* C40: no path has a manifest and a mirror directory at the same time.
C40_Exclusive ==
  \A e \in Engines : \A p \in TreePaths :
    ~(/\ FsIsFile(manifestFs[e], manifestPath(p))
      /\ FsIsDir(manifestFs[e], manifestDirPath(p)))

====
